---- MODULE Spec2Model ----
(***************************************************************************)
(* Model of the Metabase MCP server (src/src/index.ts, class               *)
(* MetabaseServer): the credential manager (getSessionToken), the upstream *)
(* request client (request), the tools/call dispatch switch, the resource  *)
(* handlers and the PostgreSQL diagnostics aggregator.                      *)
(*                                                                         *)
(* The runtime is single-threaded and cooperatively scheduled: a handler   *)
(* runs without interruption until it awaits an upstream HTTP call.  One   *)
(* action therefore models a handler from one network await to the next:   *)
(* the arrival of a request up to its first upstream call, and the arrival *)
(* of an upstream response up to the next upstream call or the end of the  *)
(* handler.                                                                *)
(****************************************************************************)
EXTENDS Integers, Sequences, FiniteSets, TLC

VARIABLES
    env,           \* process.env: the four configuration inputs
    started,       \* TRUE iff the startup precondition let the process start
    authMethod,    \* MetabaseServer.authMethod
    apiKey,        \* MetabaseServer.apiKey
    sessionToken,  \* MetabaseServer.sessionToken (the cached credential)
    exited,        \* TRUE once process.exit ended the process
    inv            \* the invocations (protocol requests) handled so far

vars == <<env, started, authMethod, apiKey, sessionToken, exited, inv>>

\* Number of protocol requests the process receives in one run.
MaxInv == 2

Inv == 1..MaxInv

-----------------------------------------------------------------------------
(* JavaScript values.  Strings are sequences of characters so that parsing  *)
(* and formatting are computed, not assumed.                                *)

Undef == [t |-> "undefined", n |-> 0, s |-> <<>>]
Null == [t |-> "null", n |-> 0, s |-> <<>>]
Num(k) == [t |-> "number", n |-> k, s |-> <<>>]
Str(cs) == [t |-> "string", n |-> 0, s |-> cs]
Obj == [t |-> "object", n |-> 0, s |-> <<>>]
\* An array value, abstracted to its length.
Arr(k) == [t |-> "array", n |-> k, s |-> <<>>]

\* JavaScript truthiness: undefined, null, 0 and "" are falsy.
Truthy(v) ==
    CASE v.t = "number" -> v.n # 0
      [] v.t = "string" -> v.s # <<>>
      [] v.t \in {"object", "array"} -> TRUE
      [] OTHER -> FALSE

Digits == {"0", "1", "2", "3", "4", "5", "6", "7", "8", "9"}

DigitChar(d) ==
    CASE d = 0 -> "0" [] d = 1 -> "1" [] d = 2 -> "2" [] d = 3 -> "3"
      [] d = 4 -> "4" [] d = 5 -> "5" [] d = 6 -> "6" [] d = 7 -> "7"
      [] d = 8 -> "8" [] OTHER -> "9"

RECURSIVE NatChars(_)
NatChars(k) == IF k < 10 THEN <<DigitChar(k)>>
               ELSE NatChars(k \div 10) \o <<DigitChar(k % 10)>>

\* String(v), as a template literal `${v}` computes it.
ToChars(v) ==
    CASE v.t = "number" -> IF v.n < 0 THEN <<"-">> \o NatChars(0 - v.n) ELSE NatChars(v.n)
      [] v.t = "string" -> v.s
      [] v.t = "null" -> <<"n", "u", "l", "l">>
      [] v.t \in {"object", "array"} -> <<"[", "o", "b", "j", "]">>
      [] OTHER -> <<"u", "n", "d", "e", "f", "i", "n", "e", "d">>

Whitespace == {" ", "\t", "\n"}

RECURSIVE TrimLeft(_)
TrimLeft(cs) == IF cs # <<>> /\ Head(cs) \in Whitespace THEN TrimLeft(Tail(cs)) ELSE cs

RECURSIVE TrimRight(_)
TrimRight(cs) == IF cs # <<>> /\ cs[Len(cs)] \in Whitespace
                 THEN TrimRight(SubSeq(cs, 1, Len(cs) - 1)) ELSE cs

\* String.prototype.trim
Trim(cs) == TrimRight(TrimLeft(cs))

\* targetTableName.replace(/'/g, "''")
RECURSIVE EscapeQuotes(_)
EscapeQuotes(cs) ==
    IF cs = <<>> THEN <<>>
    ELSE IF Head(cs) = "'" THEN <<"'", "'">> \o EscapeQuotes(Tail(cs))
    ELSE <<Head(cs)>> \o EscapeQuotes(Tail(cs))

-----------------------------------------------------------------------------
(* Error codes and errors.                                                  *)

InternalError == "internal_error"
InvalidRequest == "invalid_request"
InvalidParams == "invalid_params"
MethodNotFound == "method_not_found"

API_KEY == "api_key"
SESSION == "session"

\* An error value: an McpError (code, message), the plain object thrown by
\* request ({status, message, data}) or a runtime Error (TypeError, SyntaxError).
\* "" stands for an absent or empty message.
NoError == [cls |-> "none", code |-> "", message |-> "", dataMessage |-> ""]
McpError(code, message) ==
    [cls |-> "McpError", code |-> code, message |-> message, dataMessage |-> ""]
RuntimeError(message) ==
    [cls |-> "Error", code |-> "", message |-> message, dataMessage |-> ""]

\* apiError.data?.message || apiError.message || 'Unknown error'
ErrorMessage(e) ==
    IF e.dataMessage # "" THEN e.dataMessage
    ELSE IF e.message # "" THEN e.message
    ELSE "Unknown error"

-----------------------------------------------------------------------------
(* Upstream responses.  A JSON body is abstracted to the fields the code    *)
(* reads: its JSON type, .id (login), .cards (dashboard), .data.rows,      *)
(* .status and .error (dataset), and the elements of an array body.        *)

Body(t, id, cards, rows, status, error, elems) ==
    [t |-> t, id |-> id, cards |-> cards, rows |-> rows,
     status |-> status, error |-> error, elems |-> elems]

NoRows == [present |-> FALSE, val |-> <<>>]
Rows(rs) == [present |-> TRUE, val |-> rs]

NullBody == Body("null", Undef, FALSE, NoRows, "", "", <<>>)
ObjectBody == Body("object", Undef, FALSE, NoRows, "", "", <<>>)
ArrayBody(elems) == Body("array", Undef, FALSE, NoRows, "", "", elems)
LoginBody(id) == Body("object", id, FALSE, NoRows, "", "", <<>>)
DashboardBody(cards) == Body("object", Num(1), cards, NoRows, "", "", <<>>)
DatasetBody(rows, status, error) == Body("object", Undef, FALSE, rows, status, error, <<>>)

\* What fetch and response.json() can produce:
\*   "throw"   fetch rejects (network error)
\*   "non2xx"  a response with !response.ok; errmsg is the error body's .message
\*   "badjson" a 2xx response whose body is not JSON (response.json() rejects)
\*   "ok"      a 2xx response with a JSON body
Resp(k, status, statusText, errmsg, body) ==
    [k |-> k, status |-> status, statusText |-> statusText, errmsg |-> errmsg, body |-> body]

NetworkFailure == Resp("throw", 0, "", "", NullBody)
Unauthorized == Resp("non2xx", 401, "Unauthorized", "", NullBody)
ServerError == Resp("non2xx", 500, "", "upstream exploded", NullBody)
BadJson == Resp("badjson", 200, "OK", "", NullBody)
Ok(body) == Resp("ok", 200, "OK", "", body)

FailureResponses == {NetworkFailure, Unauthorized, ServerError, BadJson}

\* The error `await this.request(...)` throws for a response that is not a
\* parsed 2xx body (index.ts 298-311).
RequestError(resp) ==
    CASE resp.k = "non2xx" ->
           [cls |-> "ApiError", code |-> "", message |-> resp.statusText,
            dataMessage |-> resp.errmsg]
      [] resp.k = "badjson" -> RuntimeError("Unexpected token in JSON")
      [] OTHER -> RuntimeError("fetch failed")

-----------------------------------------------------------------------------
(* Upstream calls, as request() issues them.                                *)

\* The JSON body of a POST.  Fields a payload does not carry are "" / Undef.
NoPayload ==
    [tag |-> "none", type |-> "", sql |-> "", query |-> Undef, limit |-> Undef,
     table |-> <<>>, templateKey |-> "", hasParameters |-> FALSE,
     parameters |-> Undef, dbKey |-> "", database |-> Undef]

\* {username, password} (index.ts 336-339)
LoginPayload == [NoPayload EXCEPT !.tag = "login"]

\* {parameters} (index.ts 716)
CardPayload(parameters) ==
    [NoPayload EXCEPT !.tag = "card", !.hasParameters = TRUE, !.parameters = parameters]

\* request(): the one auth header attached, chosen from the auth method and
\* the credential held when the call is issued (index.ts 280-288).
AuthHeader(tok) ==
    IF authMethod = API_KEY /\ Truthy(apiKey)
    THEN [name |-> "X-API-KEY", value |-> apiKey]
    ELSE IF authMethod = SESSION /\ Truthy(tok)
    THEN [name |-> "X-Metabase-Session", value |-> tok]
    ELSE [name |-> "", value |-> Undef]

\* One upstream HTTP call: method, endpoint, the id interpolated into the
\* path, the auth header and the body.
Call(method, ep, id, payload, tok) ==
    [method |-> method, ep |-> ep, id |-> id, hdr |-> AuthHeader(tok), payload |-> payload]

-----------------------------------------------------------------------------
(* Invocations.                                                             *)

NoArgs ==
    [card_id |-> Undef, dashboard_id |-> Undef, database_id |-> Undef,
     query |-> Undef, parameters |-> Undef, native_parameters |-> Undef,
     num_slow_queries |-> Undef, target_table_name |-> Undef]

NoText == [of |-> "none", defined |-> FALSE, json |-> NullBody, indent |-> 0, message |-> ""]

\* JSON.stringify(value, null, 2) of an upstream body
JsonText(body) ==
    [of |-> "body", defined |-> TRUE, json |-> body, indent |-> 2, message |-> ""]

\* JSON.stringify(response.cards, null, 2): undefined when there is no .cards
CardsText(body) ==
    [of |-> "cards", defined |-> body.cards, json |-> body, indent |-> 2, message |-> ""]

\* JSON.stringify(diagnostics, null, 2)
ReportText ==
    [of |-> "report", defined |-> TRUE, json |-> NullBody, indent |-> 2, message |-> ""]

\* `Metabase API error: ${errorMessage}`
ErrorText(message) ==
    [of |-> "error", defined |-> TRUE, json |-> NullBody, indent |-> 0, message |-> message]

\* `Unknown tool: ${name}`
UnknownToolText ==
    [of |-> "unknown_tool", defined |-> TRUE, json |-> NullBody, indent |-> 0,
     message |-> "Unknown tool"]

NoReport ==
    [database_id |-> Undef, num_slow_queries |-> Undef, target_table_name |-> Null,
     slow_queries |-> <<>>, slow_queries_error |-> "",
     has_table_analysis |-> FALSE, table_name |-> <<>>,
     index_usage |-> <<>>, index_usage_error |-> "",
     scan_stats |-> <<>>, scan_stats_error |-> "",
     table_analysis_error |-> ""]

NoDiag == [databaseId |-> Undef, numSlowQueries |-> Undef, targetTableName |-> Undef]

\* A request not yet received.
Idle ==
    [kind |-> "idle", name |-> "", args |-> NoArgs, uri |-> Undef,
     pc |-> "idle", credential |-> Undef, inFlightLogins |-> {}, outcome |-> "none", isError |-> FALSE, error |-> NoError,
     text |-> NoText, contentUri |-> Undef, mimeType |-> "", resources |-> <<>>,
     calls |-> <<>>, resps |-> <<>>, diag |-> NoDiag, report |-> NoReport]

\* The handler awaits the response of a call it has just issued.
Issue(r, pc, call) == [r EXCEPT !.calls = Append(@, call), !.pc = pc]

\* The handler returns a payload to the transport.
Return(r, text, isError) ==
    [r EXCEPT !.pc = "done", !.outcome = "returned", !.text = text, !.isError = isError]

\* The handler throws to the transport (a protocol-level error).
Throw(r, e) == [r EXCEPT !.pc = "done", !.outcome = "thrown", !.error = e]

-----------------------------------------------------------------------------
(* Credential manager: getSessionToken (index.ts 317-352).                  *)

\* A variant that accepts a username or a password alone.
ConfigOk_UserOrPassword(e) ==
    /\ Truthy(e.METABASE_URL)
    /\ \/ Truthy(e.METABASE_API_KEY)
       \/ Truthy(e.METABASE_USER_EMAIL)
       \/ Truthy(e.METABASE_PASSWORD)

\* Line 54: the startup precondition on the environment.
ConfigOk(e) ==
    ~(~Truthy(e.METABASE_URL)
      \/ (~Truthy(e.METABASE_API_KEY)
          /\ (~Truthy(e.METABASE_USER_EMAIL) \/ ~Truthy(e.METABASE_PASSWORD))))

\* A variant in which the API-key branch of getSessionToken is forgotten.
HasCredential_SessionOnly == Truthy(sessionToken)

\* Lines 319 and 328: getSessionToken returns without a network call.
HasCredential ==
    \/ authMethod = API_KEY /\ Truthy(apiKey)
    \/ Truthy(sessionToken)

\* Lines 324 and 329: the value returned without a network call.
CachedCredential ==
    IF authMethod = API_KEY /\ Truthy(apiKey) THEN apiKey ELSE sessionToken

\* Lines 334-340: the login call.
LoginCall == Call("POST", "/api/session", <<>>, LoginPayload, sessionToken)

\* Lines 334-351: does the awaited login yield response.id?  A rejected
\* request, and a null body (response.id throws), end in the catch.
LoginSucceeds(resp) == resp.k = "ok" /\ resp.body.t # "null"

\* Line 342: this.sessionToken = response.id
LoginToken(resp) == resp.body.id

\* Lines 347-350
AuthenticationError == McpError(InternalError, "Failed to authenticate with Metabase")

-----------------------------------------------------------------------------
(* Diagnostics aggregator: _fetchPostgresDiagnostics (index.ts 889-994).    *)

\* { type: "native", native: { query: sql }, database: databaseId }
DiagnosticsPayload(sql, databaseId, limit, table) ==
    [NoPayload EXCEPT !.tag = "dataset", !.type = "native", !.sql = sql,
                      !.limit = limit, !.table = table,
                      !.dbKey = "database", !.database = databaseId]

SlowQueryCall(d, tok) ==
    Call("POST", "/api/dataset", <<>>,
         DiagnosticsPayload("slow", d.databaseId, d.numSlowQueries, <<>>), tok)

IndexUsageCall(d, tok) ==
    Call("POST", "/api/dataset", <<>>,
         DiagnosticsPayload("index", d.databaseId, Undef,
                            EscapeQuotes(d.targetTableName.s)), tok)

TableScanCall(d, tok) ==
    Call("POST", "/api/dataset", <<>>,
         DiagnosticsPayload("scan", d.databaseId, Undef,
                            EscapeQuotes(d.targetTableName.s)), tok)

\* Lines 890-898: the initial report.
InitialReport(databaseId, numSlowQueries, targetTableName) ==
    [NoReport EXCEPT
        !.database_id = databaseId,
        !.num_slow_queries = numSlowQueries,
        !.target_table_name = IF Truthy(targetTableName) THEN targetTableName ELSE Null,
        !.has_table_analysis = Truthy(targetTableName),
        !.table_name = IF Truthy(targetTableName) THEN targetTableName.s ELSE <<>>]

\* The if / else-if chain applied to a sub-query's parsed body (lines 915-926,
\* 949-960, 975-986): rows when data.rows is there, else an error string.
SubQueryOutcome(body) ==
    IF body.rows.present THEN [ok |-> TRUE, rows |-> body.rows.val, error |-> ""]
    ELSE IF body.status = "failed"
    THEN [ok |-> FALSE, rows |-> <<>>, error |-> "Query execution failed"]
    ELSE IF body.error # ""
    THEN [ok |-> FALSE, rows |-> <<>>, error |-> "Query returned an error"]
    ELSE [ok |-> FALSE, rows |-> <<>>, error |-> "Unexpected response structure from Metabase"]

\* Does `await this.request(...)` followed by the reads of response.data throw?
SubQueryThrows(resp) == resp.k # "ok" \/ resp.body.t = "null"

\* Lines 901-930: the slow-query step, with its own try/catch.
AfterSlowQuery(report, resp) ==
    IF SubQueryThrows(resp)
    THEN [report EXCEPT !.slow_queries_error = "Failed to fetch from pg_stat_statements"]
    ELSE LET o == SubQueryOutcome(resp.body) IN
         IF o.ok THEN [report EXCEPT !.slow_queries = o.rows]
         ELSE [report EXCEPT !.slow_queries_error = o.error]

\* Lines 949-960: the index-usage response, when nothing was thrown.
AfterIndexUsage(report, resp) ==
    LET o == SubQueryOutcome(resp.body) IN
    IF o.ok THEN [report EXCEPT !.index_usage = o.rows]
    ELSE [report EXCEPT !.index_usage_error = o.error]

\* Lines 975-986: the table-scan response, when nothing was thrown.
AfterTableScan(report, resp) ==
    LET o == SubQueryOutcome(resp.body) IN
    IF o.ok THEN [report EXCEPT !.scan_stats = o.rows]
    ELSE [report EXCEPT !.scan_stats_error = o.error]

\* A variant whose catch starts the report afresh.
TableBlockCatch_FreshReport(report) ==
    [NoReport EXCEPT !.table_analysis_error = "Failed to fetch diagnostics for table"]

\* Lines 988-991: the catch around the whole table-specific block.
TableBlockCatch(report) ==
    [report EXCEPT !.table_analysis_error = "Failed to fetch diagnostics for table"]

\* Line 933: is the table-specific block entered?
WantsTableAnalysis(r) == Truthy(r.diag.targetTableName) /\ r.report.has_table_analysis

\* Lines 851-858: the tool returns the report; no error flag is set.
DiagnosticsReturn(r, report) == Return([r EXCEPT !.report = report], ReportText, FALSE)

\* Lines 889-913: the call of _fetchPostgresDiagnostics up to its first await.
DiagnosticsStart(r, databaseId, numSlowQueries, targetTableName, tok) ==
    LET d == [databaseId |-> databaseId, numSlowQueries |-> numSlowQueries,
              targetTableName |-> targetTableName] IN
    Issue([r EXCEPT !.diag = d,
                    !.report = InitialReport(databaseId, numSlowQueries, targetTableName)],
          "slow", SlowQueryCall(d, tok))

\* A variant that issues the two table sub-queries together.
DiagnosticsAfterSlow_BothAtOnce(r, resp, tok) ==
    LET rep == AfterSlowQuery(r.report, resp)
        r1 == [r EXCEPT !.report = rep] IN
    IF WantsTableAnalysis(r1)
    THEN Issue(Issue(r1, "index", IndexUsageCall(r.diag, tok)),
               "scan", TableScanCall(r.diag, tok))
    ELSE DiagnosticsReturn(r1, rep)

\* The slow-query response arrives: lines 914-948.
DiagnosticsAfterSlow(r, resp, tok) ==
    LET rep == AfterSlowQuery(r.report, resp)
        r1 == [r EXCEPT !.report = rep] IN
    IF WantsTableAnalysis(r1) THEN Issue(r1, "index", IndexUsageCall(r.diag, tok))
    ELSE DiagnosticsReturn(r1, rep)

\* The index-usage response arrives: lines 949-974.
DiagnosticsAfterIndex(r, resp, tok) ==
    IF SubQueryThrows(resp) THEN DiagnosticsReturn(r, TableBlockCatch(r.report))
    ELSE Issue([r EXCEPT !.report = AfterIndexUsage(r.report, resp)],
               "scan", TableScanCall(r.diag, tok))

\* The table-scan response arrives: lines 975-993.
DiagnosticsAfterScan(r, resp) ==
    IF SubQueryThrows(resp) THEN DiagnosticsReturn(r, TableBlockCatch(r.report))
    ELSE DiagnosticsReturn(r, AfterTableScan(r.report, resp))

-----------------------------------------------------------------------------
(* The second implementation: MetabaseClient._fetchPostgresDiagnostics      *)
(* (metabase_client.ts 158-253).                                            *)

\* Lines 159-168: the initial report.
ClientInitialReport(databaseId, numSlowQueries, targetTableName) ==
    [NoReport EXCEPT
        !.database_id = databaseId,
        !.num_slow_queries = numSlowQueries,
        !.target_table_name = IF Truthy(targetTableName) THEN targetTableName ELSE Null,
        !.has_table_analysis = Truthy(targetTableName),
        !.table_name = IF Truthy(targetTableName) THEN targetTableName.s ELSE <<>>]

\* Lines 177, 209, 232: { type: "native", native: { query: sql }, database: databaseId }
ClientPayload(sql, databaseId, limit, table) ==
    [NoPayload EXCEPT !.tag = "dataset", !.type = "native", !.sql = sql,
                      !.limit = limit, !.table = table,
                      !.dbKey = "database", !.database = databaseId]

ClientSlowQueryCall(d, tok) ==
    Call("POST", "/api/dataset", <<>>,
         ClientPayload("slow", d.databaseId, d.numSlowQueries, <<>>), tok)

ClientIndexUsageCall(d, tok) ==
    Call("POST", "/api/dataset", <<>>,
         ClientPayload("index", d.databaseId, Undef, EscapeQuotes(d.targetTableName.s)), tok)

ClientTableScanCall(d, tok) ==
    Call("POST", "/api/dataset", <<>>,
         ClientPayload("scan", d.databaseId, Undef, EscapeQuotes(d.targetTableName.s)), tok)

\* A variant that tests the reported failure before the rows.
ClientSubQueryOutcome_FailureFirst(body) ==
    IF body.status = "failed" \/ body.error # ""
    THEN [ok |-> FALSE, rows |-> <<>>,
          error |-> IF body.error # "" THEN body.error ELSE "Query execution failed"]
    ELSE IF body.rows.present THEN [ok |-> TRUE, rows |-> body.rows.val, error |-> ""]
    ELSE [ok |-> FALSE, rows |-> <<>>, error |-> "Unexpected response structure from Metabase"]

\* Lines 184-193, 214-223, 237-246: rows when data.rows is there; else, when
\* status is 'failed' or error is set, `response.error || 'Query execution
\* failed'`; else the unexpected-structure message.
ClientSubQueryOutcome(body) ==
    IF body.rows.present THEN [ok |-> TRUE, rows |-> body.rows.val, error |-> ""]
    ELSE IF body.status = "failed" \/ body.error # ""
    THEN [ok |-> FALSE, rows |-> <<>>,
          error |-> IF body.error # "" THEN body.error ELSE "Query execution failed"]
    ELSE [ok |-> FALSE, rows |-> <<>>, error |-> "Unexpected response structure from Metabase"]

\* Does `await this.request(...)` followed by the reads of response.data throw?
ClientSubQueryThrows(resp) == resp.k # "ok" \/ resp.body.t = "null"

\* Lines 169-197: the slow-query step, with its own try/catch.
ClientAfterSlowQuery(report, resp) ==
    IF ClientSubQueryThrows(resp)
    THEN [report EXCEPT !.slow_queries_error = "Failed to fetch from pg_stat_statements"]
    ELSE LET o == ClientSubQueryOutcome(resp.body) IN
         IF o.ok THEN [report EXCEPT !.slow_queries = o.rows]
         ELSE [report EXCEPT !.slow_queries_error = o.error]

\* Lines 214-223
ClientAfterIndexUsage(report, resp) ==
    LET o == ClientSubQueryOutcome(resp.body) IN
    IF o.ok THEN [report EXCEPT !.index_usage = o.rows]
    ELSE [report EXCEPT !.index_usage_error = o.error]

\* Lines 237-246
ClientAfterTableScan(report, resp) ==
    LET o == ClientSubQueryOutcome(resp.body) IN
    IF o.ok THEN [report EXCEPT !.scan_stats = o.rows]
    ELSE [report EXCEPT !.scan_stats_error = o.error]

\* Lines 247-250: the catch around the whole table-specific block.
ClientTableBlockCatch(report) ==
    [report EXCEPT !.table_analysis_error = "Failed to fetch diagnostics for table"]

\* Line 199
ClientWantsTableAnalysis(r) == Truthy(r.diag.targetTableName) /\ r.report.has_table_analysis

\* Line 252: return results
ClientReturn(r, report) ==
    [r EXCEPT !.report = report, !.pc = "done", !.outcome = "returned"]

\* Lines 158-182: the call of the function up to its first await.
ClientDiagnosticsStart(r, databaseId, numSlowQueries, targetTableName, tok) ==
    LET d == [databaseId |-> databaseId, numSlowQueries |-> numSlowQueries,
              targetTableName |-> targetTableName] IN
    Issue([r EXCEPT !.diag = d,
                    !.report = ClientInitialReport(databaseId, numSlowQueries, targetTableName)],
          "slow", ClientSlowQueryCall(d, tok))

\* The slow-query response arrives: lines 184-213.
ClientAfterSlow(r, resp, tok) ==
    LET rep == ClientAfterSlowQuery(r.report, resp)
        r1 == [r EXCEPT !.report = rep] IN
    IF ClientWantsTableAnalysis(r1) THEN Issue(r1, "index", ClientIndexUsageCall(r.diag, tok))
    ELSE ClientReturn(r1, rep)

\* The index-usage response arrives: lines 214-236.
ClientAfterIndex(r, resp, tok) ==
    IF ClientSubQueryThrows(resp) THEN ClientReturn(r, ClientTableBlockCatch(r.report))
    ELSE Issue([r EXCEPT !.report = ClientAfterIndexUsage(r.report, resp)],
               "scan", ClientTableScanCall(r.diag, tok))

\* The table-scan response arrives: lines 237-252.
ClientAfterScan(r, resp) ==
    IF ClientSubQueryThrows(resp) THEN ClientReturn(r, ClientTableBlockCatch(r.report))
    ELSE ClientReturn(r, ClientAfterTableScan(r.report, resp))

\* The function from the arrival of a response to its next await or its end.
ClientAfterData(r, resp, tok) ==
    CASE r.pc = "slow" -> ClientAfterSlow(r, resp, tok)
      [] r.pc = "index" -> ClientAfterIndex(r, resp, tok)
      [] OTHER -> ClientAfterScan(r, resp)

-----------------------------------------------------------------------------
(* tools/call: the CallToolRequestSchema handler (index.ts 646-886).        *)

ToolNames ==
    {"list_dashboards", "list_cards", "list_databases", "execute_card",
     "get_dashboard_cards", "execute_query", "get_database_schema",
     "get_postgres_performance_diagnostics"}

\* The input schemas declared for the tools (tools.ts 11-33): required fields
\* of the declared type, optional fields absent or of the declared type.
IsType(v, t) == v.t = t
OptionalOf(v, t) == v.t = "undefined" \/ v.t = t

SchemaAccepts(name, a) ==
    CASE name = "execute_card" ->
           IsType(a.card_id, "number") /\ OptionalOf(a.parameters, "object")
      [] name = "get_dashboard_cards" -> IsType(a.dashboard_id, "number")
      [] name = "execute_query" ->
           /\ IsType(a.database_id, "number")
           /\ IsType(a.query, "string")
           /\ OptionalOf(a.native_parameters, "array")
      [] name = "get_database_schema" -> IsType(a.database_id, "number")
      [] name = "get_postgres_performance_diagnostics" ->
           /\ IsType(a.database_id, "number")
           /\ OptionalOf(a.num_slow_queries, "number")
           /\ OptionalOf(a.target_table_name, "string")
      [] OTHER -> TRUE

\* The required fields of each tool (index.ts 562, 576, 601, 615, 639).
RequiredFields(name) ==
    CASE name = "execute_card" -> {"card_id"}
      [] name = "get_dashboard_cards" -> {"dashboard_id"}
      [] name = "execute_query" -> {"database_id", "query"}
      [] name = "get_database_schema" -> {"database_id"}
      [] name = "get_postgres_performance_diagnostics" -> {"database_id"}
      [] OTHER -> {}

\* A variant whose catch forgets the error flag.
ToolCatch_NoErrorFlag(r, e) == Return(r, ErrorText(ErrorMessage(e)), FALSE)

\* Lines 873-885: the catch of the dispatch switch.
ToolCatch(r, e) == Return(r, ErrorText(ErrorMessage(e)), TRUE)

\* Lines 703, 730, 757, 765: `if (!value)`.
MissingArg(v) == ~Truthy(v)

\* Lines 802, 829: `if (!databaseId || typeof databaseId !== 'number')`.
MissingOrNotNumber(v) == ~Truthy(v) \/ v.t # "number"

\* Line 835: the default of num_slow_queries.
DefaultNumSlowQueries == 10

\* A variant that trusts the argument's type.
NormalizeNumSlowQueries_NoTypeCheck(v) ==
    IF v.t = "undefined" THEN Num(10)
    ELSE IF v.t = "number" /\ v.n <= 0 THEN Num(10)
    ELSE v

\* A variant that does not trim the table name.
ValidateTargetTableName_NoTrim(v) ==
    IF v.t = "string" /\ v.s # <<>> THEN v ELSE Undef

\* Lines 834-839
NormalizeNumSlowQueries(v) ==
    IF v.t = "undefined" THEN Num(DefaultNumSlowQueries)
    ELSE IF v.t # "number" \/ v.n <= 0 THEN Num(DefaultNumSlowQueries)
    ELSE v

\* Lines 841-848
ValidateTargetTableName(v) ==
    IF v.t # "undefined" /\ v.t = "string" /\ Trim(v.s) # <<>> THEN v ELSE Undef

\* Lines 776-784: the body of POST /api/dataset for execute_query.
ExecuteQueryPayload(databaseId, query, nativeParameters) ==
    [NoPayload EXCEPT !.tag = "dataset", !.type = "native", !.sql = "user",
                      !.query = query, !.templateKey = "template_tags",
                      !.hasParameters = TRUE, !.parameters = nativeParameters,
                      !.dbKey = "database", !.database = databaseId]

\* value || fallback
OrElse(v, fallback) == IF Truthy(v) THEN v ELSE fallback

\* Lines 658-872: the dispatch switch, from its entry to the first await or
\* to the return of the handler.
ToolSwitch(r, tok) ==
    LET a == r.args IN
    CASE r.name = "list_dashboards" ->
           Issue(r, "http", Call("GET", "/api/dashboard", <<>>, NoPayload, tok))
      [] r.name = "list_cards" ->
           Issue(r, "http", Call("GET", "/api/card", <<>>, NoPayload, tok))
      [] r.name = "list_databases" ->
           Issue(r, "http", Call("GET", "/api/database", <<>>, NoPayload, tok))
      [] r.name = "execute_card" ->
           IF MissingArg(a.card_id)
           THEN ToolCatch(r, McpError(InvalidParams, "Card ID parameter is required"))
           ELSE Issue(r, "http", Call("POST", "/api/card/{id}/query", ToChars(a.card_id),
                                      CardPayload(OrElse(a.parameters, Obj)), tok))
      [] r.name = "get_dashboard_cards" ->
           IF MissingArg(a.dashboard_id)
           THEN ToolCatch(r, McpError(InvalidParams, "Dashboard ID parameter is required"))
           ELSE Issue(r, "http", Call("GET", "/api/dashboard/{id}", ToChars(a.dashboard_id),
                                      NoPayload, tok))
      [] r.name = "execute_query" ->
           IF MissingArg(a.database_id)
           THEN ToolCatch(r, McpError(InvalidParams, "Database ID parameter is required"))
           ELSE IF MissingArg(a.query)
           THEN ToolCatch(r, McpError(InvalidParams, "SQL query parameter is required"))
           ELSE Issue(r, "http",
                      Call("POST", "/api/dataset", <<>>,
                           ExecuteQueryPayload(a.database_id, a.query,
                                               OrElse(a.native_parameters, Arr(0))), tok))
      [] r.name = "get_database_schema" ->
           IF MissingOrNotNumber(a.database_id)
           THEN ToolCatch(r, McpError(InvalidParams,
                    "database_id parameter is required and must be a number"))
           ELSE Issue(r, "http", Call("GET", "/api/database/{id}/metadata",
                                      ToChars(a.database_id), NoPayload, tok))
      [] r.name = "get_postgres_performance_diagnostics" ->
           IF MissingOrNotNumber(a.database_id)
           THEN ToolCatch(r, McpError(InvalidParams,
                    "database_id is required and must be a number."))
           ELSE DiagnosticsStart(r, a.database_id,
                                 NormalizeNumSlowQueries(a.num_slow_queries),
                                 ValidateTargetTableName(a.target_table_name), tok)
      [] OTHER -> Return(r, UnknownToolText, TRUE)

\* The statements after `await this.request(...)` of the seven simple tools.
ToolAfterResponse(r, resp) ==
    IF resp.k # "ok" THEN ToolCatch(r, RequestError(resp))
    ELSE IF r.name \in {"list_dashboards", "list_cards", "list_databases"}
    THEN \* response.length
         IF resp.body.t = "null"
         THEN ToolCatch(r, RuntimeError("Cannot read properties of null"))
         ELSE Return(r, JsonText(resp.body), FALSE)
    ELSE IF r.name = "get_dashboard_cards"
    THEN \* response.cards?.length
         IF resp.body.t = "null"
         THEN ToolCatch(r, RuntimeError("Cannot read properties of null"))
         ELSE Return(r, CardsText(resp.body), FALSE)
    ELSE Return(r, JsonText(resp.body), FALSE)

-----------------------------------------------------------------------------
(* resources/read and resources/list (index.ts 358-386, 416-505).           *)

SchemeChars == <<"m", "e", "t", "a", "b", "a", "s", "e", ":", "/", "/">>
DashboardChars == <<"d", "a", "s", "h", "b", "o", "a", "r", "d">>
CardChars == <<"c", "a", "r", "d">>
DatabaseChars == <<"d", "a", "t", "a", "b", "a", "s", "e">>

KindChars(kind) ==
    CASE kind = "dashboard" -> DashboardChars
      [] kind = "card" -> CardChars
      [] OTHER -> DatabaseChars

ResourceKinds == {"dashboard", "card", "database"}

\* uri.match(/^metabase:\/\/<kind>\/(\d+)$/): does it match?
UriMatches(cs, kind) ==
    LET p == SchemeChars \o KindChars(kind) \o <<"/">> IN
    /\ Len(cs) > Len(p)
    /\ SubSeq(cs, 1, Len(p)) = p
    /\ \A j \in (Len(p) + 1)..Len(cs) : cs[j] \in Digits

\* A variant that takes the capture one character early.
UriId_WithSlash(cs, kind) ==
    SubSeq(cs, Len(SchemeChars) + Len(KindChars(kind)) + 1, Len(cs))

\* match[1]
UriId(cs, kind) ==
    SubSeq(cs, Len(SchemeChars) + Len(KindChars(kind)) + 2, Len(cs))

\* A variant that leaves out the slash before the id.
DashboardUri_NoSlash(id) == SchemeChars \o DashboardChars \o ToChars(id)

\* `metabase://dashboard/${dashboard.id}` (line 373)
DashboardUri(id) == SchemeChars \o DashboardChars \o <<"/">> \o ToChars(id)

ResourceEndpoint(kind) ==
    CASE kind = "dashboard" -> "/api/dashboard/{id}"
      [] kind = "card" -> "/api/card/{id}"
      [] OTHER -> "/api/database/{id}"

\* Lines 495-504: the catch of the read handler: whatever was thrown inside
\* the try is rethrown as an InternalError.
ReadCatch(r, e) ==
    Throw(r, McpError(InternalError, "Metabase API error: " \o ErrorMessage(e)))

\* Lines 436-494: the try block of the read handler, up to its await.
ReadDispatch(r, tok) ==
    IF UriMatches(r.uri.s, "dashboard")
    THEN Issue(r, "http", Call("GET", ResourceEndpoint("dashboard"),
                               UriId(r.uri.s, "dashboard"), NoPayload, tok))
    ELSE IF UriMatches(r.uri.s, "card")
    THEN Issue(r, "http", Call("GET", ResourceEndpoint("card"),
                               UriId(r.uri.s, "card"), NoPayload, tok))
    ELSE IF UriMatches(r.uri.s, "database")
    THEN Issue(r, "http", Call("GET", ResourceEndpoint("database"),
                               UriId(r.uri.s, "database"), NoPayload, tok))
    ELSE ReadCatch(r, McpError(InvalidRequest, "Invalid URI format"))

\* A variant that checks the uri inside the try block.
ReadResourceBody_CheckInsideTry(r, tok) ==
    IF ~Truthy(r.uri)
    THEN ReadCatch(r, McpError(InvalidParams, "URI parameter is required"))
    ELSE ReadDispatch(r, tok)

\* Lines 425-494: the read handler after getSessionToken, up to its await.
ReadResourceBody(r, tok) ==
    IF ~Truthy(r.uri)
    THEN Throw(r, McpError(InvalidParams, "URI parameter is required"))
    ELSE ReadDispatch(r, tok)

\* Lines 442-451, 459-468, 476-485: after the awaited GET.
ReadAfterResponse(r, resp) ==
    IF resp.k # "ok" THEN ReadCatch(r, RequestError(resp))
    ELSE IF resp.body.t = "null"  \* response.name
    THEN ReadCatch(r, RuntimeError("Cannot read properties of null"))
    ELSE [Return(r, JsonText(resp.body), FALSE) EXCEPT
             !.contentUri = r.uri, !.mimeType = "application/json"]

\* Lines 379-385: the catch of the list handler.
ListCatch(r) == Throw(r, McpError(InternalError, "Failed to retrieve Metabase resources"))

\* Lines 362-365
ListResourcesBody(r, tok) ==
    Issue(r, "http", Call("GET", "/api/dashboard", <<>>, NoPayload, tok))

\* Lines 372-377: one descriptor per dashboard.
ResourceOf(dashboard) ==
    [uri |-> DashboardUri(dashboard.id), mimeType |-> "application/json",
     name |-> dashboard.name]

\* A variant that sends the GET again when it failed.
ListAfterResponse_Retry(r, resp) ==
    IF resp.k # "ok" /\ Len(r.resps) < 3 THEN Issue(r, "http", r.calls[Len(r.calls)])
    ELSE IF resp.k # "ok" \/ resp.body.t # "array" THEN ListCatch(r)
    ELSE [Return(r, NoText, FALSE) EXCEPT
             !.resources = [k \in 1..Len(resp.body.elems) |-> ResourceOf(resp.body.elems[k])]]

\* Lines 367-378: after the awaited GET /api/dashboard.
ListAfterResponse(r, resp) ==
    IF resp.k # "ok" \/ resp.body.t # "array" THEN ListCatch(r)
    ELSE [Return(r, NoText, FALSE) EXCEPT
             !.resources = [k \in 1..Len(resp.body.elems) |-> ResourceOf(resp.body.elems[k])]]

-----------------------------------------------------------------------------
(* The handlers as steps between network awaits.                            *)

\* The second implementation of execute_query: handleExecuteQuery of tools.ts
\* over a MetabaseClient, whose request and getSessionToken
\* (metabase_client.ts 107-156) read like those of MetabaseServer.  An
\* invocation of it has kind "handler".

\* tools.ts 144-149: the body of POST /api/dataset.
HandleExecuteQueryPayload(databaseId, query, nativeParameters) ==
    [NoPayload EXCEPT !.tag = "dataset", !.type = "native", !.sql = "user",
                      !.query = query, !.templateKey = "template-tags",
                      !.hasParameters = TRUE, !.parameters = nativeParameters,
                      !.dbKey = "database_id", !.database = databaseId]

\* tools.ts 143-153: handleExecuteQuery after getSessionToken, up to its await.
\* Its arguments are typed by the schema; it has no check of its own.
HandleExecuteQuery(r, tok) ==
    Issue(r, "http",
          Call("POST", "/api/dataset", <<>>,
               HandleExecuteQueryPayload(r.args.database_id, r.args.query,
                                         OrElse(r.args.native_parameters, Arr(0))), tok))

\* tools.ts 150-157: after the awaited request; the handler has no try/catch,
\* so an error of the request leaves it as thrown.
HandleExecuteQueryAfterResponse(r, resp) ==
    IF resp.k # "ok" THEN Throw(r, RequestError(resp))
    ELSE Return(r, JsonText(resp.body), FALSE)

\* What follows `await this.getSessionToken()` in each handler.
AfterAuth(r, tok) ==
    CASE r.kind = "tool" -> ToolSwitch(r, tok)
      [] r.kind = "read" -> ReadResourceBody(r, tok)
      [] r.kind = "handler" -> HandleExecuteQuery(r, tok)
      [] OTHER -> ListResourcesBody(r, tok)

\* A handler from the arrival of its request to its first network await:
\* getSessionToken (lines 360, 423, 656) returns at once when a credential is
\* held, and issues the login call otherwise.  inFlightLogins is history kept
\* for the properties: the logins awaited by other invocations at that moment.
Begin(r) ==
    IF HasCredential
    THEN AfterAuth([r EXCEPT !.credential = CachedCredential], sessionToken)
    ELSE [Issue(r, "login", LoginCall) EXCEPT
             !.inFlightLogins = {j \in Inv : inv[j].pc = "login"}]

\* A variant in which a failed login is swallowed and the handler goes on.
AfterLogin_Swallow(r, resp) ==
    IF LoginSucceeds(resp)
    THEN AfterAuth([r EXCEPT !.credential = LoginToken(resp)], LoginToken(resp))
    ELSE AfterAuth(r, sessionToken)

\* getSessionToken after the awaited login call (lines 341-351).  It is
\* awaited outside every handler's try block, so its error reaches the
\* transport.
AfterLogin(r, resp) ==
    IF LoginSucceeds(resp)
    THEN AfterAuth([r EXCEPT !.credential = LoginToken(resp)], LoginToken(resp))
    ELSE Throw(r, AuthenticationError)

\* A variant that forgets the cached token when a login fails.
TokenAfterLogin_ClearOnFailure(resp) ==
    IF LoginSucceeds(resp) THEN LoginToken(resp) ELSE Null

\* Line 342: the cached token after the awaited login call.
TokenAfterLogin(resp) ==
    IF LoginSucceeds(resp) THEN LoginToken(resp) ELSE sessionToken

\* A handler from the arrival of a data response to its next await or its end.
AfterData(r, resp, tok) ==
    CASE r.kind = "handler" -> HandleExecuteQueryAfterResponse(r, resp)
      [] r.kind = "client" -> ClientAfterData(r, resp, tok)
      [] r.pc = "slow" -> DiagnosticsAfterSlow(r, resp, tok)
      [] r.pc = "index" -> DiagnosticsAfterIndex(r, resp, tok)
      [] r.pc = "scan" -> DiagnosticsAfterScan(r, resp)
      [] r.kind = "tool" -> ToolAfterResponse(r, resp)
      [] r.kind = "read" -> ReadAfterResponse(r, resp)
      [] OTHER -> ListAfterResponse(r, resp)

\* Requests arrive one after the other: slot i is used after slot i - 1.
NextSlot(i) == inv[i].kind = "idle" /\ (IF i = 1 THEN TRUE ELSE inv[i - 1].kind # "idle")

Received(r, resp) == [r EXCEPT !.resps = Append(@, resp)]

PendingCall(r) == r.calls[Len(r.calls)]

-----------------------------------------------------------------------------
(* Actions.                                                                 *)

\* A tools/call request arrives.
CallTool(i, name, args) ==
    /\ started /\ ~exited
    /\ NextSlot(i)
    /\ inv' = [inv EXCEPT ![i] = Begin([Idle EXCEPT !.kind = "tool", !.name = name,
                                                    !.args = args])]
    /\ UNCHANGED <<env, started, authMethod, apiKey, sessionToken, exited>>

\* A resources/read request arrives.
ReadResource(i, uri) ==
    /\ started /\ ~exited
    /\ NextSlot(i)
    /\ inv' = [inv EXCEPT ![i] = Begin([Idle EXCEPT !.kind = "read", !.uri = uri])]
    /\ UNCHANGED <<env, started, authMethod, apiKey, sessionToken, exited>>

\* A resources/list request arrives.
ListResources(i) ==
    /\ started /\ ~exited
    /\ NextSlot(i)
    /\ inv' = [inv EXCEPT ![i] = Begin([Idle EXCEPT !.kind = "list"])]
    /\ UNCHANGED <<env, started, authMethod, apiKey, sessionToken, exited>>

\* handleExecuteQuery of tools.ts is called with schema-typed arguments.
CallHandler(i, args) ==
    /\ started /\ ~exited
    /\ NextSlot(i)
    /\ inv' = [inv EXCEPT ![i] = Begin([Idle EXCEPT !.kind = "handler",
                                                    !.name = "execute_query",
                                                    !.args = args])]
    /\ UNCHANGED <<env, started, authMethod, apiKey, sessionToken, exited>>

\* The response of POST /api/session arrives.
LoginResponse(i, resp) ==
    /\ ~exited
    /\ inv[i].pc = "login"
    /\ sessionToken' = TokenAfterLogin(resp)
    /\ inv' = [inv EXCEPT ![i] = AfterLogin(Received(inv[i], resp), resp)]
    /\ UNCHANGED <<env, started, authMethod, apiKey, exited>>

\* The response of a data call arrives.
DataResponse(i, resp) ==
    /\ ~exited
    /\ inv[i].pc \in {"http", "slow", "index", "scan"}
    /\ inv' = [inv EXCEPT ![i] = AfterData(Received(inv[i], resp), resp, sessionToken)]
    /\ UNCHANGED <<env, started, authMethod, apiKey, sessionToken, exited>>

\* Lines 122-126: SIGINT arrives; the handler closes the server and calls
\* process.exit(0), which ends the process with its pending continuations.
Sigint ==
    /\ started /\ ~exited
    /\ exited' = TRUE
    /\ UNCHANGED <<env, started, authMethod, apiKey, sessionToken, inv>>

\* Both implementations of _fetchPostgresDiagnostics are called with the same
\* arguments: MetabaseServer's in slot 1, MetabaseClient's in slot 2.
FetchBoth(databaseId, numSlowQueries, targetTableName) ==
    /\ started /\ ~exited
    /\ inv[1].kind = "idle" /\ inv[2].kind = "idle"
    /\ inv' = [inv EXCEPT
          ![1] = DiagnosticsStart([Idle EXCEPT !.kind = "tool",
                                               !.name = "get_postgres_performance_diagnostics"],
                                  databaseId, numSlowQueries, targetTableName, sessionToken),
          ![2] = ClientDiagnosticsStart([Idle EXCEPT !.kind = "client",
                                                     !.name = "_fetchPostgresDiagnostics"],
                                        databaseId, numSlowQueries, targetTableName,
                                        sessionToken)]
    /\ UNCHANGED <<env, started, authMethod, apiKey, sessionToken, exited>>

\* One implementation receives its next upstream outcome, if it awaits one.
Outcome(r, resp) ==
    IF r.pc \in {"slow", "index", "scan"}
    THEN AfterData(Received(r, resp), resp, sessionToken)
    ELSE r

\* The upstream gives both implementations the same outcome for their next call.
RespondBoth(resp) ==
    /\ ~exited
    /\ inv[1].pc \in {"slow", "index", "scan"} \/ inv[2].pc \in {"slow", "index", "scan"}
    /\ inv' = [inv EXCEPT ![1] = Outcome(inv[1], resp), ![2] = Outcome(inv[2], resp)]
    /\ UNCHANGED <<env, started, authMethod, apiKey, sessionToken, exited>>

-----------------------------------------------------------------------------
(* Inputs.                                                                  *)

Chars_t == <<"t">>
Chars_quote == <<"o", "'", "r">>
Chars_blank == <<" ", " ">>
Chars_abc == <<"a", "b", "c">>
Chars_sql == <<"S", "E", "L", "E", "C", "T", " ", "1">>

Present == Str(<<"x">>)
EnvValues == {Undef, Present}

Environments ==
    [METABASE_URL : EnvValues, METABASE_API_KEY : EnvValues,
     METABASE_USER_EMAIL : EnvValues, METABASE_PASSWORD : EnvValues]

Token1 == Str(<<"s", "1">>)
Token2 == Str(<<"s", "2">>)

Uri(kind, id) == Str(SchemeChars \o kind \o <<"/">> \o id)

Init ==
    /\ env \in Environments
    /\ started = ConfigOk(env)
    /\ authMethod = IF Truthy(env.METABASE_API_KEY) THEN API_KEY ELSE SESSION
    /\ apiKey = IF Truthy(env.METABASE_API_KEY) THEN env.METABASE_API_KEY ELSE Null
    /\ sessionToken = Null
    /\ exited = FALSE
    /\ inv = [i \in Inv |-> Idle]

-----------------------------------------------------------------------------
(* The whole server: requests of every kind, interleaved at their awaits.   *)

ToolRequest(name, args) == [name |-> name, args |-> args]

\* The tools/call requests of the interleaved specification.
SystemToolRequests ==
    {ToolRequest("list_dashboards", NoArgs),
     ToolRequest("execute_card", NoArgs),
     ToolRequest("get_postgres_performance_diagnostics",
                 [NoArgs EXCEPT !.database_id = Num(1)]),
     ToolRequest("no_such_tool", NoArgs)}

\* The resources/read uris of the interleaved specification.
SystemUris ==
    {Undef,
     Uri(<<"w", "i", "d", "g", "e", "t">>, <<"1">>),
     Uri(DashboardChars, <<"1", "2", "3">>),
     Uri(CardChars, <<"7">>),
     Uri(DatabaseChars, <<"0", "1">>)}

SystemLoginResponses == {Ok(LoginBody(Token1)), Ok(LoginBody(Undef)), Unauthorized}

\* The responses the upstream gives to the pending data call of r.
SystemDataResponses(r) ==
    IF r.calls = <<>> THEN {}
    ELSE IF PendingCall(r).ep = "/api/dataset"
    THEN {Ok(DatasetBody(Rows(<<"r1">>), "completed", "")), Unauthorized}
    ELSE IF PendingCall(r).ep = "/api/dashboard"
    THEN {Ok(ArrayBody(<<[id |-> Num(5), name |-> "D5"]>>)), Unauthorized}
    ELSE {Ok(DashboardBody(TRUE)), Unauthorized}

Next ==
    \E i \in Inv :
        \/ \E q \in SystemToolRequests : CallTool(i, q.name, q.args)
        \/ \E u \in SystemUris : ReadResource(i, u)
        \/ ListResources(i)
        \/ \E resp \in SystemLoginResponses : LoginResponse(i, resp)
        \/ \E resp \in SystemDataResponses(inv[i]) : DataResponse(i, resp)

Spec == Init /\ [][Next]_vars

-----------------------------------------------------------------------------
(* The credential manager under concurrency: one more request than the      *)
(* interleaved specification, all of them list_dashboards, against every    *)
(* kind of login response.                                                  *)

CredentialInv == 1..(MaxInv + 1)

CredentialLoginResponses ==
    {Ok(LoginBody(Token1)), Ok(LoginBody(Token2)), Ok(LoginBody(Undef)),
     Ok(LoginBody(Str(<<>>))), Ok(NullBody),
     Unauthorized, NetworkFailure, BadJson}

CredentialDataResponses ==
    {Ok(ArrayBody(<<>>)), Unauthorized}

InitCredential ==
    /\ env \in Environments
    /\ started = ConfigOk(env)
    /\ authMethod = IF Truthy(env.METABASE_API_KEY) THEN API_KEY ELSE SESSION
    /\ apiKey = IF Truthy(env.METABASE_API_KEY) THEN env.METABASE_API_KEY ELSE Null
    /\ sessionToken = Null
    /\ exited = FALSE
    /\ inv = [i \in CredentialInv |-> Idle]

NextCredential ==
    \E i \in CredentialInv :
        \/ CallTool(i, "list_dashboards", NoArgs)
        \/ \E resp \in CredentialLoginResponses : LoginResponse(i, resp)
        \/ \E resp \in CredentialDataResponses : DataResponse(i, resp)

SpecCredential == InitCredential /\ [][NextCredential]_vars

-----------------------------------------------------------------------------
(* One tools/call at a time, over every tool and every shape of arguments.  *)

IdValues == {Undef, Num(0), Num(7), Str(<<"7">>)}

ToolRequests ==
    {ToolRequest(n, NoArgs) : n \in {"list_dashboards", "list_cards", "list_databases",
                                      "no_such_tool"}}
    \cup {ToolRequest("execute_card", [NoArgs EXCEPT !.card_id = v, !.parameters = p]) :
            v \in IdValues, p \in {Undef, Obj}}
    \cup {ToolRequest("get_dashboard_cards", [NoArgs EXCEPT !.dashboard_id = v]) :
            v \in IdValues}
    \cup {ToolRequest("execute_query",
                      [NoArgs EXCEPT !.database_id = v, !.query = q,
                                     !.native_parameters = p]) :
            v \in IdValues, q \in {Undef, Str(<<>>), Str(Chars_sql)}, p \in {Undef, Arr(1)}}
    \cup {ToolRequest("get_database_schema", [NoArgs EXCEPT !.database_id = v]) :
            v \in IdValues}
    \cup {ToolRequest("get_postgres_performance_diagnostics",
                      [NoArgs EXCEPT !.database_id = v, !.num_slow_queries = k,
                                     !.target_table_name = t]) :
            v \in IdValues,
            k \in {Undef, Num(-5), Num(3), Str(Chars_abc)},
            t \in {Undef, Str(Chars_blank), Str(Chars_t)}}

ToolLoginResponses == {Ok(LoginBody(Token1)), Ok(LoginBody(Undef)), Unauthorized, BadJson}

ToolDataResponses(r) ==
    IF r.calls = <<>> THEN {}
    ELSE IF PendingCall(r).ep = "/api/dataset"
    THEN {Ok(DatasetBody(Rows(<<"r1">>), "completed", "")),
          Ok(DatasetBody(NoRows, "failed", "boom")), Ok(NullBody), Unauthorized}
    ELSE FailureResponses
         \cup {Ok(NullBody), Ok(ObjectBody), Ok(DashboardBody(TRUE)),
               Ok(ArrayBody(<<>>)), Ok(ArrayBody(<<[id |-> Num(5), name |-> "D5"]>>))}

NextTools ==
    \/ \E q \in ToolRequests : CallTool(1, q.name, q.args)
    \/ \E resp \in ToolLoginResponses : LoginResponse(1, resp)
    \/ \E resp \in ToolDataResponses(inv[1]) : DataResponse(1, resp)

SpecTools == Init /\ [][NextTools]_vars

-----------------------------------------------------------------------------
(* One invocation of any kind: a tools/call, a resources/read or a          *)
(* resources/list, against every kind of response.                          *)

InvocationUris ==
    SystemUris \cup {Str(SchemeChars \o DashboardChars \o <<"/">>),
                     Str(SchemeChars \o CardChars \o <<"/", "7", "x">>)}

NextInvocation ==
    \/ \E q \in ToolRequests : CallTool(1, q.name, q.args)
    \/ \E u \in InvocationUris : ReadResource(1, u)
    \/ ListResources(1)
    \/ \E resp \in ToolLoginResponses : LoginResponse(1, resp)
    \/ \E resp \in ToolDataResponses(inv[1]) : DataResponse(1, resp)

SpecInvocation == Init /\ [][NextInvocation]_vars

-----------------------------------------------------------------------------
(* The server with an interrupt: requests interleave, SIGINT may arrive at  *)
(* any moment, and the upstream answers every call that is awaited.         *)

ShutdownDataResponses(r) ==
    IF r.calls = <<>> THEN {}
    ELSE {Ok([NullBody EXCEPT !.t = "object", !.cards = TRUE]), Unauthorized}

NextShutdown ==
    \/ \E i \in Inv : CallTool(i, "list_dashboards", NoArgs)
    \/ \E i \in Inv : ReadResource(i, Uri(DashboardChars, <<"1">>))
    \/ \E i \in Inv : ListResources(i)
    \/ \E i \in Inv, resp \in SystemLoginResponses : LoginResponse(i, resp)
    \/ \E i \in Inv : \E resp \in ShutdownDataResponses(inv[i]) : DataResponse(i, resp)
    \/ Sigint

\* fetch settles every request it has sent: an awaited response arrives.
ShutdownFairness ==
    \A i \in Inv :
        /\ WF_vars(\E resp \in SystemLoginResponses : LoginResponse(i, resp))
        /\ WF_vars(\E resp \in ShutdownDataResponses(inv[i]) : DataResponse(i, resp))

SpecShutdown == Init /\ [][NextShutdown]_vars /\ ShutdownFairness

-----------------------------------------------------------------------------
(* execute_query in its two implementations: the dispatch switch of         *)
(* index.ts and handleExecuteQuery of tools.ts, one invocation of either.   *)

\* Arguments the schema of execute_query accepts (tools.ts 20-24).
ExecuteQueryArgs ==
    {[NoArgs EXCEPT !.database_id = v, !.query = q, !.native_parameters = p] :
        v \in {Num(1), Num(7)},
        q \in {Str(Chars_sql), Str(Chars_abc)},
        p \in {Undef, Arr(0), Arr(1)}}

HandlerLoginResponses == {Ok(LoginBody(Token1)), Unauthorized}

HandlerDataResponses ==
    {Ok(DatasetBody(Rows(<<"r1">>), "completed", "")),
     Ok(DatasetBody(NoRows, "failed", "boom")), Unauthorized, NetworkFailure}

NextHandlers ==
    \/ \E a \in ExecuteQueryArgs : CallTool(1, "execute_query", a)
    \/ \E a \in ExecuteQueryArgs : CallHandler(1, a)
    \/ \E resp \in HandlerLoginResponses : LoginResponse(1, resp)
    \/ \E resp \in HandlerDataResponses : DataResponse(1, resp)

SpecHandlers == Init /\ [][NextHandlers]_vars

-----------------------------------------------------------------------------
(* One diagnostics invocation against every kind of sub-query response.     *)

DiagnosticsRequests ==
    {ToolRequest("get_postgres_performance_diagnostics",
                 [NoArgs EXCEPT !.database_id = Num(1), !.num_slow_queries = k,
                                !.target_table_name = t]) :
        k \in {Undef, Num(-5), Num(0), Num(3), Str(Chars_abc)},
        t \in {Undef, Str(<<>>), Str(Chars_blank), Str(Chars_t), Str(Chars_quote), Num(1)}}

DatasetBodies ==
    {DatasetBody(rows, status, error) :
        rows \in {NoRows, Rows(<<>>), Rows(<<"r1">>)},
        status \in {"completed", "failed"},
        error \in {"", "boom"}}

DiagnosticsLoginResponses == {Ok(LoginBody(Token1)), Unauthorized}

DiagnosticsDataResponses ==
    FailureResponses \cup {Ok(NullBody), Ok(ObjectBody)} \cup {Ok(b) : b \in DatasetBodies}

NextDiagnostics ==
    \/ \E q \in DiagnosticsRequests : CallTool(1, q.name, q.args)
    \/ \E resp \in DiagnosticsLoginResponses : LoginResponse(1, resp)
    \/ \E resp \in DiagnosticsDataResponses : DataResponse(1, resp)

SpecDiagnostics == Init /\ [][NextDiagnostics]_vars

-----------------------------------------------------------------------------
(* The two implementations of _fetchPostgresDiagnostics side by side.       *)

FetchArguments ==
    [databaseId : {Num(1), Num(7)},
     numSlowQueries : {Num(3), Num(10)},
     targetTableName : {Undef, Str(<<>>), Str(Chars_t), Str(Chars_quote)}]

NextEquivalence ==
    \/ \E a \in FetchArguments : FetchBoth(a.databaseId, a.numSlowQueries, a.targetTableName)
    \/ \E resp \in DiagnosticsDataResponses : RespondBoth(resp)

SpecEquivalence == Init /\ [][NextEquivalence]_vars

-----------------------------------------------------------------------------
(* resources/list followed by resources/read of the uris it returned.       *)

DashboardIds == {Undef, Num(0), Num(7), Num(12), Num(-1)}

DashboardLists ==
    {<<>>}
    \cup {<<[id |-> a, name |-> "A"]>> : a \in DashboardIds}
    \cup {<<[id |-> a, name |-> "A"], [id |-> b, name |-> "B"]>> : a, b \in DashboardIds}

RoundTripLoginResponses == {Ok(LoginBody(Token1)), Unauthorized}

RoundTripDataResponses(r) ==
    IF r.calls = <<>> THEN {}
    ELSE IF PendingCall(r).ep = "/api/dashboard"
    THEN {Ok(ArrayBody(l)) : l \in DashboardLists} \cup {Unauthorized}
    ELSE {Ok(DashboardBody(TRUE)), Unauthorized}

NextRoundTrip ==
    \/ \E i \in Inv : ListResources(i)
    \/ \E i, j \in Inv : \E k \in DOMAIN inv[j].resources :
          ReadResource(i, Str(inv[j].resources[k].uri))
    \/ \E i \in Inv, resp \in RoundTripLoginResponses : LoginResponse(i, resp)
    \/ \E i \in Inv : \E resp \in RoundTripDataResponses(inv[i]) : DataResponse(i, resp)

SpecRoundTrip == Init /\ [][NextRoundTrip]_vars

-----------------------------------------------------------------------------
(* Vocabulary of the properties.                                            *)

Slots == DOMAIN inv

IsLogin(c) == c.ep = "/api/session"

\* The login calls and the data calls an invocation has issued.
LoginCalls(r) == SelectSeq(r.calls, IsLogin)
DataCalls(r) == SelectSeq(r.calls, LAMBDA c : ~IsLogin(c))

\* Did the invocation enter getSessionToken with no credential held?
FirstUse(r) == r.calls # <<>> /\ IsLogin(r.calls[1])

\* The responses to the data calls of an invocation, in order.
DataResps(r) == IF FirstUse(r) /\ r.resps # <<>> THEN Tail(r.resps) ELSE r.resps

\* getSessionToken has thrown / has returned normally for the invocation.
LoginFailed(r) == FirstUse(r) /\ r.resps # <<>> /\ ~LoginSucceeds(r.resps[1])
TokenResolved(r) ==
    /\ r.kind # "idle"
    /\ r.pc # "login"
    /\ ~LoginFailed(r)

ApiKeyMode == Truthy(env.METABASE_API_KEY)

-----------------------------------------------------------------------------
(* C1 *)

\* C1: in API-key mode, whatever requests have been handled and however they
\* interleave, no POST /api/session is issued or awaited, getSessionToken has
\* returned the configured key to every invocation, and the cached session
\* token is still null.
C1_ApiKeyNeverLogsIn ==
    (started /\ ApiKeyMode) =>
        /\ sessionToken = Null
        /\ \A i \in Slots :
              /\ LoginCalls(inv[i]) = <<>>
              /\ inv[i].pc # "login"
              /\ inv[i].kind # "idle" => inv[i].credential = env.METABASE_API_KEY

\* Reached: API-key mode with a username and a password configured as well,
\* one request answered from an upstream call and another one in flight.
C1_Witness ==
    /\ started /\ ApiKeyMode
    /\ Truthy(env.METABASE_USER_EMAIL) /\ Truthy(env.METABASE_PASSWORD)
    /\ \E i, j \in Slots :
          /\ inv[i].outcome = "returned" /\ DataCalls(inv[i]) # <<>>
          /\ inv[j].pc = "http"

-----------------------------------------------------------------------------
(* C2 *)

\* Two first-use calls of getSessionToken are concurrent when one issued its
\* login while the other's was in flight.
ConcurrentFirstUse(a, b) == a # b /\ FirstUse(inv[a]) /\ a \in inv[b].inFlightLogins

\* C2: in session mode each invocation issues at most one login call, and once
\* two concurrent first-use calls of getSessionToken have both returned
\* normally, a request that arrives afterwards issues no login call.
C2_NoLoginAfterFirstUse ==
    /\ [](\A i \in Slots : Len(LoginCalls(inv[i])) <= 1)
    /\ [][\A c \in Slots :
            (/\ inv[c].kind = "idle"
             /\ inv'[c].kind # "idle"
             /\ \E a, b \in Slots :
                   /\ ConcurrentFirstUse(a, b)
                   /\ TokenResolved(inv[a])
                   /\ TokenResolved(inv[b]))
            => LoginCalls(inv'[c]) = <<>>]_vars

-----------------------------------------------------------------------------
(* C3 *)

FailedResponse(resp) == resp.k # "ok"

\* C3: a finished tools/call has returned a Tool Response, never thrown to the
\* transport, and when its login or its upstream call failed the response
\* carries the error flag.  (Read in the claim's favour: the sub-queries of
\* the diagnostics tool, whose failures go into the report, are left out.)
C3_ToolCallAlwaysAnswersWithErrorFlag ==
    \A i \in Slots :
        (inv[i].kind = "tool" /\ inv[i].pc = "done") =>
            /\ inv[i].outcome = "returned"
            /\ (/\ inv[i].name # "get_postgres_performance_diagnostics"
                /\ \E k \in 1..Len(inv[i].resps) : FailedResponse(inv[i].resps[k]))
                  => inv[i].isError

-----------------------------------------------------------------------------
(* C4 *)

\* A response of the upstream that is a success: 2xx with a JSON body that
\* is not null.
SuccessResponse(resp) == resp.k = "ok" /\ resp.body.t # "null"

\* C4: a finished tools/call of one of the eight tools whose arguments are
\* accepted by the tool's schema, and whose upstream calls all succeeded, has
\* returned a response without the error flag.
C4_WellFormedCallSucceeds ==
    \A i \in Slots :
        (/\ inv[i].kind = "tool" /\ inv[i].pc = "done"
         /\ inv[i].name \in ToolNames
         /\ SchemaAccepts(inv[i].name, inv[i].args)
         /\ \A k \in 1..Len(inv[i].resps) : SuccessResponse(inv[i].resps[k]))
        => (inv[i].outcome = "returned" /\ ~inv[i].isError)

-----------------------------------------------------------------------------
(* C5 *)

\* The field an error message names.
CitedFields(message) ==
    CASE message = "Card ID parameter is required" -> {"card_id"}
      [] message = "Dashboard ID parameter is required" -> {"dashboard_id"}
      [] message = "Database ID parameter is required" -> {"database_id"}
      [] message = "SQL query parameter is required" -> {"query"}
      [] message = "database_id parameter is required and must be a number" -> {"database_id"}
      [] message = "database_id is required and must be a number." -> {"database_id"}
      [] OTHER -> {}

\* C5: a finished tools/call of a tool with a required argument, whose
\* arguments lack that argument, has returned a response with the error flag
\* and a message citing the argument.  (Read in the claim's favour: the
\* tool's other required arguments are present and pass its checks.)
C5_MissingRequiredFieldIsCited ==
    \A i \in Slots :
        \A f \in RequiredFields(inv[i].name) :
            (/\ inv[i].kind = "tool" /\ inv[i].pc = "done"
             /\ inv[i].args[f].t = "undefined"
             /\ \A g \in RequiredFields(inv[i].name) \ {f} : Truthy(inv[i].args[g]))
            => /\ inv[i].outcome = "returned"
               /\ inv[i].isError
               /\ f \in CitedFields(inv[i].text.message)

-----------------------------------------------------------------------------
(* C6 *)

\* Does the uri match none of the three patterns?
MatchesNoPattern(uri) ==
    /\ Truthy(uri)
    /\ \A kind \in ResourceKinds : ~UriMatches(uri.s, kind)

\* C6: a finished resources/read whose uri matches none of the three patterns
\* has failed with the code InvalidRequest and has issued no upstream GET.
\* (Read in the claim's favour: credential acquisition returned normally.)
C6_MalformedUriIsInvalidRequest ==
    \A i \in Slots :
        (/\ inv[i].kind = "read" /\ inv[i].pc = "done"
         /\ TokenResolved(inv[i])
         /\ MatchesNoPattern(inv[i].uri))
        => /\ inv[i].outcome = "thrown"
           /\ inv[i].error.code = InvalidRequest
           /\ DataCalls(inv[i]) = <<>>

-----------------------------------------------------------------------------
(* C7 *)

AbsentUriRead(r) == r.kind = "read" /\ r.pc = "done" /\ r.uri = Undef

\* C7 as stated: a finished resources/read whose uri is absent has failed with
\* the code InvalidParams, whatever the outcome of credential acquisition.
C7_AbsentUriIsInvalidParams ==
    \A i \in Slots :
        AbsentUriRead(inv[i]) =>
            (inv[i].outcome = "thrown" /\ inv[i].error.code = InvalidParams)

\* C7, amended: a finished resources/read whose uri is absent has failed and
\* issued no upstream GET; with InvalidParams when credential acquisition
\* returned normally (API key, cached token or successful login), and with the
\* InternalError of getSessionToken when the login failed.
C7_AbsentUriAfterCredential ==
    \A i \in Slots :
        AbsentUriRead(inv[i]) =>
            /\ inv[i].outcome = "thrown"
            /\ DataCalls(inv[i]) = <<>>
            /\ TokenResolved(inv[i]) =>
                  inv[i].error = McpError(InvalidParams, "URI parameter is required")
            /\ LoginFailed(inv[i]) => inv[i].error = AuthenticationError

\* Reached: session mode, the login of the request succeeded, and the request
\* with the absent uri failed with InvalidParams.
C7_Witness ==
    \E i \in Slots :
        /\ AbsentUriRead(inv[i])
        /\ FirstUse(inv[i]) /\ TokenResolved(inv[i])
        /\ inv[i].error.code = InvalidParams

-----------------------------------------------------------------------------
(* C8 *)

\* Reads of well-formed uris, with the endpoint and the id each one names.
WellFormedReads ==
    {[uri |-> Uri(DashboardChars, <<"1", "2", "3">>),
      ep |-> "/api/dashboard/{id}", id |-> <<"1", "2", "3">>],
     [uri |-> Uri(CardChars, <<"7">>),
      ep |-> "/api/card/{id}", id |-> <<"7">>],
     [uri |-> Uri(DatabaseChars, <<"0", "1">>),
      ep |-> "/api/database/{id}", id |-> <<"0", "1">>]}

IsGetOf(c, w) == c.method = "GET" /\ c.ep = w.ep /\ c.id = w.id /\ c.payload = NoPayload

\* The content a successful read returns: one entry with the original uri,
\* the JSON mime type and the pretty-printed body.
ReadContentOf(r, resp) ==
    /\ r.outcome = "returned"
    /\ r.contentUri = r.uri
    /\ r.mimeType = "application/json"
    /\ r.text = JsonText(resp.body)

\* C8 as stated: a finished resources/read of metabase://K/N has issued exactly
\* one upstream GET, to /api/K/N, and on upstream success has returned one
\* content entry with the original uri, application/json and the JSON body.
C8_ReadIssuesExactlyOneGet ==
    \A i \in Slots : \A w \in WellFormedReads :
        (inv[i].kind = "read" /\ inv[i].pc = "done" /\ inv[i].uri = w.uri) =>
            /\ Len(DataCalls(inv[i])) = 1
            /\ IsGetOf(DataCalls(inv[i])[1], w)
            /\ SuccessResponse(DataResps(inv[i])[1]) =>
                  ReadContentOf(inv[i], DataResps(inv[i])[1])

\* C8, amended: a resources/read of metabase://K/N issues at most one upstream
\* call; once credential acquisition has returned normally it has issued
\* exactly one, a GET to /api/K/N for the same kind and id; when the login
\* failed it issues none; and once that GET has succeeded the request has
\* returned one content entry with the original uri, application/json and the
\* JSON of the body.
C8_ReadIssuesOneGetAfterCredential ==
    \A i \in Slots : \A w \in WellFormedReads :
        (inv[i].kind = "read" /\ inv[i].uri = w.uri) =>
            /\ Len(DataCalls(inv[i])) <= 1
            /\ \A k \in 1..Len(DataCalls(inv[i])) : IsGetOf(DataCalls(inv[i])[k], w)
            /\ TokenResolved(inv[i]) => Len(DataCalls(inv[i])) = 1
            /\ LoginFailed(inv[i]) => DataCalls(inv[i]) = <<>>
            /\ (DataResps(inv[i]) # <<>> /\ SuccessResponse(DataResps(inv[i])[1])) =>
                  (inv[i].pc = "done" /\ ReadContentOf(inv[i], DataResps(inv[i])[1]))

\* Reached: a read of metabase://database/01 in session mode logged in, issued
\* its GET and returned the body.
C8_Witness ==
    \E i \in Slots :
        /\ inv[i].kind = "read" /\ inv[i].pc = "done"
        /\ inv[i].uri = Uri(DatabaseChars, <<"0", "1">>)
        /\ FirstUse(inv[i])
        /\ Len(DataCalls(inv[i])) = 1
        /\ inv[i].outcome = "returned"

-----------------------------------------------------------------------------
(* C9 *)

\* A sub-call that fails: the request throws, or the body reports a failure.
SubCallFails(resp) ==
    \/ resp.k # "ok"
    \/ resp.body.status = "failed"
    \/ resp.body.error # ""

\* A sub-call that succeeds: a 2xx body with rows and no failure reported.
SubCallSucceeds(resp) ==
    /\ resp.k = "ok"
    /\ resp.body.rows.present
    /\ resp.body.status # "failed"
    /\ resp.body.error = ""

\* C9: a finished diagnostics call with a target table whose slow-query
\* sub-call failed while the index-usage and scan-stats sub-calls succeeded
\* reports slow_queries_error, no slow queries, the rows of the two table
\* sub-calls, and no index_usage_error, scan_stats_error or
\* table_analysis_error.
C9_SlowQueryFailureIsReported ==
    \A i \in Slots :
        (/\ inv[i].kind = "tool" /\ inv[i].pc = "done"
         /\ inv[i].name = "get_postgres_performance_diagnostics"
         /\ Len(DataResps(inv[i])) = 3
         /\ SubCallFails(DataResps(inv[i])[1])
         /\ SubCallSucceeds(DataResps(inv[i])[2])
         /\ SubCallSucceeds(DataResps(inv[i])[3]))
        => /\ inv[i].report.slow_queries_error # ""
           /\ inv[i].report.slow_queries = <<>>
           /\ inv[i].report.index_usage = DataResps(inv[i])[2].body.rows.val
           /\ inv[i].report.scan_stats = DataResps(inv[i])[3].body.rows.val
           /\ inv[i].report.index_usage_error = ""
           /\ inv[i].report.scan_stats_error = ""
           /\ inv[i].report.table_analysis_error = ""

-----------------------------------------------------------------------------
(* C10 *)

IssuedSubQuery(r, sql) ==
    \E k \in 1..Len(r.calls) : r.calls[k].payload.sql = sql

\* C10: a finished diagnostics call that issued the index-usage sub-query has
\* issued the scan-stats sub-query as well, whatever the index-usage
\* sub-query's outcome.
C10_ScanStatsAlwaysIssued ==
    \A i \in Slots :
        (/\ inv[i].kind = "tool" /\ inv[i].pc = "done"
         /\ IssuedSubQuery(inv[i], "index"))
        => IssuedSubQuery(inv[i], "scan")

-----------------------------------------------------------------------------
(* C11 *)

IsDiagnostics(r) == r.kind = "tool" /\ r.name = "get_postgres_performance_diagnostics"

\* _fetchPostgresDiagnostics has been entered: its first sub-call is issued.
DiagnosticsEntered(r) == IsDiagnostics(r) /\ IssuedSubQuery(r, "slow")

\* A sub-call that raises inside the aggregator: the request rejects, or the
\* parsed body is null and reading a property of it raises.
SubCallRaises(resp) == resp.k # "ok" \/ resp.body.t = "null"

\* The table-specific block has raised.
TableBlockRaised(r) ==
    \E k \in 2..Len(DataResps(r)) : SubCallRaises(DataResps(r)[k])

\* C11: once _fetchPostgresDiagnostics is entered, whatever its sub-calls
\* answer, the finished call has returned the report without the error flag;
\* when the table-specific block raised, table_analysis_error is recorded; and
\* no step after the slow-query step changes slow_queries or
\* slow_queries_error.
C11_DiagnosticsNeverRaises ==
    /\ [](\A i \in Slots :
            (DiagnosticsEntered(inv[i]) /\ inv[i].pc = "done") =>
                /\ inv[i].outcome = "returned"
                /\ ~inv[i].isError
                /\ inv[i].text = ReportText
                /\ TableBlockRaised(inv[i]) <=> inv[i].report.table_analysis_error # "")
    /\ [][\A i \in Slots :
            (IsDiagnostics(inv[i]) /\ inv[i].pc \in {"index", "scan"}) =>
                /\ inv'[i].report.slow_queries = inv[i].report.slow_queries
                /\ inv'[i].report.slow_queries_error = inv[i].report.slow_queries_error]_vars

\* Reached: the slow-query step returned rows, the index-usage request was
\* answered 401, and the report keeps the rows next to table_analysis_error.
C11_Witness ==
    \E i \in Slots :
        /\ DiagnosticsEntered(inv[i]) /\ inv[i].pc = "done"
        /\ Len(DataResps(inv[i])) = 2
        /\ DataResps(inv[i])[2] = Unauthorized
        /\ inv[i].report.slow_queries = <<"r1">>
        /\ inv[i].report.table_analysis_error # ""

-----------------------------------------------------------------------------
(* C12 *)

\* A report has been returned by the diagnostics tool.
ReportReturned(r) == DiagnosticsEntered(r) /\ r.pc = "done" /\ r.text = ReportText

\* The value the claim expects for an argument num_slow_queries.
ExpectedNumSlowQueries(v) ==
    IF v.t = "number" /\ v.n > 0 THEN v ELSE Num(10)

-----------------------------------------------------------------------------
(* C13 *)

\* An argument target_table_name that is the empty string or only whitespace.
BlankTableName(v) ==
    /\ v.t = "string"
    /\ \A k \in 1..Len(v.s) : v.s[k] \in {" ", "\t", "\n"}

\* C13: a returned report for a blank target_table_name has no table_analysis
\* and a null parameters_used.target_table_name, and the call has issued
\* exactly one upstream query, the slow-query one; the index-usage and
\* scan-stats queries are issued only for a string with a non-blank character.
C13_BlankTableNameIsAbsent ==
    \A i \in Slots :
        /\ (ReportReturned(inv[i]) /\ BlankTableName(inv[i].args.target_table_name)) =>
              /\ ~inv[i].report.has_table_analysis
              /\ inv[i].report.target_table_name = Null
              /\ Len(DataCalls(inv[i])) = 1
              /\ DataCalls(inv[i])[1].payload.sql = "slow"
        /\ (IsDiagnostics(inv[i])
            /\ (IssuedSubQuery(inv[i], "index") \/ IssuedSubQuery(inv[i], "scan"))) =>
              /\ inv[i].args.target_table_name.t = "string"
              /\ ~BlankTableName(inv[i].args.target_table_name)

\* Reached: a report for the table name "  " (two blanks).
C13_Witness ==
    \E i \in Slots :
        /\ ReportReturned(inv[i])
        /\ inv[i].args.target_table_name = Str(Chars_blank)
        /\ Len(DataCalls(inv[i])) = 1

-----------------------------------------------------------------------------
(* C14 *)

\* The auth header the mode calls for.
IsModeHeader(hdr) ==
    IF ApiKeyMode
    THEN hdr = [name |-> "X-API-KEY", value |-> env.METABASE_API_KEY]
    ELSE hdr.name = "X-Metabase-Session" /\ hdr.value.t = "string" /\ hdr.value.s # <<>>

\* C14: every upstream call carries the one auth header of the mode: X-API-KEY
\* with the API key in API-key mode, X-Metabase-Session with the session token
\* in session mode.  (Read in the claim's favour: the login call, which is
\* issued to obtain the token, is left out.)
C14_ExactlyOneAuthHeader ==
    \A i \in Slots :
        \A k \in 1..Len(inv[i].calls) :
            ~IsLogin(inv[i].calls[k]) => IsModeHeader(inv[i].calls[k].hdr)

-----------------------------------------------------------------------------
(* C15 *)

\* The configurations the startup precondition admits.
AdmittedConfiguration ==
    /\ env.METABASE_URL # Undef
    /\ \/ env.METABASE_API_KEY # Undef
       \/ (env.METABASE_USER_EMAIL # Undef /\ env.METABASE_PASSWORD # Undef)

\* C15: the process has started exactly when a base URL and either an API key
\* or both a username and a password are configured; under every other
\* configuration no request is ever handled and no upstream call is issued.
C15_StartupPrecondition ==
    /\ started <=> AdmittedConfiguration
    /\ ~AdmittedConfiguration => \A i \in Slots : inv[i] = Idle
    /\ (\E i \in Slots : inv[i].kind # "idle") => AdmittedConfiguration

\* Reached: a base URL and a username without a password or an API key; the
\* process has not started.
C15_Witness ==
    /\ ~started
    /\ env.METABASE_URL # Undef /\ env.METABASE_USER_EMAIL # Undef
    /\ env.METABASE_PASSWORD = Undef /\ env.METABASE_API_KEY = Undef
    /\ \A i \in Slots : inv[i].calls = <<>>

-----------------------------------------------------------------------------
(* C16 *)

\* The invocation found a cached session token: session mode, and its first
\* upstream call is a data call.
UsedCachedToken(r) == ~ApiKeyMode /\ r.calls # <<>> /\ LoginCalls(r) = <<>>

\* The invocation has ended with a failure: an error-flagged tool response or
\* an error thrown to the transport.
EndedWithFailure(r) ==
    /\ r.pc = "done"
    /\ \/ r.outcome = "thrown"
       \/ r.outcome = "returned" /\ r.isError

\* A data call of the invocation was answered with a failure.
DataCallFailed(r) == \E k \in 1..Len(DataResps(r)) : FailedResponse(DataResps(r)[k])

\* The step in which invocation i receives a failed response to a data call.
ReceivesFailure(i) ==
    /\ inv[i].pc \in {"http", "slow", "index", "scan"}
    /\ Len(inv'[i].resps) = Len(inv[i].resps) + 1
    /\ FailedResponse(inv'[i].resps[Len(inv'[i].resps)])

-----------------------------------------------------------------------------
(* C17 *)

\* A session token: a non-empty string.
IsToken(v) == v.t = "string" /\ v.s # <<>>

\* A login that succeeded: a 2xx response whose body carries a token as id.
GoodLogin(resp) == resp.k = "ok" /\ resp.body.t = "object" /\ IsToken(resp.body.id)

\* The step in which invocation i processes the response of its login.
ProcessesLogin(i) == inv[i].pc = "login" /\ inv'[i].pc # "login"

LastResp(r) == r.resps[Len(r.resps)]

\* C17: in session mode the cached token after a successful login is the id
\* of the login response processed last, a data call issued while a token is
\* cached carries that token, and a cached token is only ever replaced by
\* the token a successful login returned.
C17_LastLoginWins ==
    /\ [][\A i \in Slots :
            (ProcessesLogin(i) /\ GoodLogin(LastResp(inv'[i]))) =>
                sessionToken' = LastResp(inv'[i]).body.id]_vars
    /\ [][\A i \in Slots :
            IsToken(sessionToken') =>
                \A k \in (Len(inv[i].calls) + 1)..Len(inv'[i].calls) :
                    ~IsLogin(inv'[i].calls[k]) =>
                        inv'[i].calls[k].hdr = [name |-> "X-Metabase-Session",
                                                value |-> sessionToken']]_vars
    /\ [][(IsToken(sessionToken) /\ sessionToken' # sessionToken) =>
            \E i \in Slots :
                /\ ProcessesLogin(i)
                /\ GoodLogin(LastResp(inv'[i]))
                /\ sessionToken' = LastResp(inv'[i]).body.id]_vars

-----------------------------------------------------------------------------
(* C18 *)

\* A login that getSessionToken takes as successful: the awaited request
\* returned a parsed 2xx body.
LoginReturned(resp) == resp.k = "ok" /\ resp.body.t # "null"

\* C18: base URL, credentials configuration, auth method and API key never
\* change; a step changes one invocation at most; and the cached session
\* token changes only in the step in which an invocation processes a
\* successful login response: no arrival of a request, no response to a data
\* call (of a tool, a resource handler or a diagnostics sub-query) and no
\* failed login changes it.
C18_OnlyLoginWritesToken ==
    /\ [][/\ env' = env /\ started' = started
          /\ authMethod' = authMethod /\ apiKey' = apiKey]_vars
    /\ [][\A i, j \in Slots :
            (inv'[i] # inv[i] /\ inv'[j] # inv[j]) => i = j]_vars
    /\ [][sessionToken' # sessionToken =>
            \E i \in Slots :
                /\ ProcessesLogin(i)
                /\ LoginReturned(LastResp(inv'[i]))
                /\ sessionToken' = LastResp(inv'[i]).body.id]_vars
    /\ [][\A i \in Slots :
            (\/ inv[i].pc \in {"idle", "http", "slow", "index", "scan"} /\ inv'[i] # inv[i]
             \/ ProcessesLogin(i) /\ ~LoginReturned(LastResp(inv'[i])))
            => sessionToken' = sessionToken]_vars

\* Reached: a token is cached, one invocation's login failed after that, and
\* another one's data call failed; the token is still the cached one.
C18_Witness ==
    /\ sessionToken = Token1
    /\ \E i, j \in Slots :
          /\ LoginFailed(inv[i])
          /\ inv[j].pc = "done" /\ DataCallFailed(inv[j])

-----------------------------------------------------------------------------
(* C19 *)

\* A tools/call whose arguments fail validation: a required argument of the
\* tool is missing.
FailsValidation(r) ==
    /\ r.kind = "tool"
    /\ \E f \in RequiredFields(r.name) : r.args[f].t = "undefined"

\* C19: a tools/call whose arguments fail validation never has an upstream
\* call issued on its behalf, the login call included; and the step in which
\* it is rejected changes neither the cached credential nor any other
\* invocation.
C19_ValidationBeforeUpstream ==
    /\ [](\A i \in Slots : FailsValidation(inv[i]) => inv[i].calls = <<>>)
    /\ [][\A i \in Slots :
            (FailsValidation(inv'[i]) /\ inv[i].pc # "done" /\ inv'[i].pc = "done") =>
                /\ sessionToken' = sessionToken
                /\ \A j \in Slots \ {i} : inv'[j] = inv[j]]_vars

-----------------------------------------------------------------------------
(* C20 *)

\* A table sub-query that fails in any way: the request rejects, the body
\* reports a failed status or an error, or the body has no rows.
TableSubQueryFails(resp) ==
    \/ resp.k # "ok"
    \/ resp.body.t = "null"
    \/ resp.body.status = "failed"
    \/ resp.body.error # ""
    \/ ~resp.body.rows.present

\* The responses to the index-usage and to the scan-stats sub-query.
HasIndexResponse(r) == IssuedSubQuery(r, "index") /\ Len(DataResps(r)) >= 2
HasScanResponse(r) == IssuedSubQuery(r, "scan") /\ Len(DataResps(r)) >= 3
IndexResponse(r) == DataResps(r)[2]
ScanResponse(r) == DataResps(r)[3]

\* C20: in a finished diagnostics call with a table name, a failed index-usage
\* sub-query has set index_usage_error and a failed scan-stats sub-query has
\* set scan_stats_error, neither error field is set without the failure of its
\* own sub-query, and a sub-query that succeeded has filled its data field
\* with its rows.
C20_TableSubQueriesKeepOwnFields ==
    \A i \in Slots :
        (IsDiagnostics(inv[i]) /\ inv[i].pc = "done") =>
            /\ HasIndexResponse(inv[i]) =>
                  IF TableSubQueryFails(IndexResponse(inv[i]))
                  THEN inv[i].report.index_usage_error # ""
                  ELSE /\ inv[i].report.index_usage = IndexResponse(inv[i]).body.rows.val
                       /\ inv[i].report.index_usage_error = ""
            /\ HasScanResponse(inv[i]) =>
                  IF TableSubQueryFails(ScanResponse(inv[i]))
                  THEN inv[i].report.scan_stats_error # ""
                  ELSE /\ inv[i].report.scan_stats = ScanResponse(inv[i]).body.rows.val
                       /\ inv[i].report.scan_stats_error = ""
            /\ inv[i].report.index_usage_error # "" =>
                  (HasIndexResponse(inv[i]) /\ TableSubQueryFails(IndexResponse(inv[i])))
            /\ inv[i].report.scan_stats_error # "" =>
                  (HasScanResponse(inv[i]) /\ TableSubQueryFails(ScanResponse(inv[i])))

-----------------------------------------------------------------------------
(* C21 *)

\* A parsed body that reports a failure: a failed status or an error field.
BodyReportsFailure(resp) ==
    /\ resp.k = "ok" /\ resp.body.t = "object"
    /\ (resp.body.status = "failed" \/ resp.body.error # "")

\* C21: once the slow-query response is processed, a body that reports a
\* failure, rows or no rows, has set slow_queries_error and left slow_queries
\* empty; slow_queries is filled only from a response that reports no failure.
C21_ReportedFailureWinsOverRows ==
    \A i \in Slots :
        (DiagnosticsEntered(inv[i]) /\ DataResps(inv[i]) # <<>>) =>
            /\ BodyReportsFailure(DataResps(inv[i])[1]) =>
                  /\ inv[i].report.slow_queries_error # ""
                  /\ inv[i].report.slow_queries = <<>>
            /\ inv[i].report.slow_queries # <<>> =>
                  ~BodyReportsFailure(DataResps(inv[i])[1])

-----------------------------------------------------------------------------
(* C22 *)

SubQueryOrder == <<"slow", "index", "scan">>

\* The sub-queries an invocation has issued, in order.
SubQueries(r) == [k \in 1..Len(DataCalls(r)) |-> DataCalls(r)[k].payload.sql]

\* C22: the sub-queries a diagnostics invocation has issued are a prefix of
\* slow-query, index-usage, scan-stats; every one but the last has been
\* answered, so at most one is in flight; at most three are issued; and a
\* sub-query is issued only in the step that processes the answer to the
\* previous one.
C22_SubQueriesSequential ==
    /\ [](\A i \in Slots :
            IsDiagnostics(inv[i]) =>
                /\ Len(DataCalls(inv[i])) <= 3
                /\ SubQueries(inv[i]) = SubSeq(SubQueryOrder, 1, Len(DataCalls(inv[i])))
                /\ Len(DataCalls(inv[i])) <= Len(DataResps(inv[i])) + 1
                /\ inv[i].pc = "done" => Len(DataCalls(inv[i])) = Len(DataResps(inv[i])))
    /\ [][\A i \in Slots :
            (IsDiagnostics(inv[i]) /\ DataCalls(inv[i]) # <<>>
             /\ Len(DataCalls(inv'[i])) > Len(DataCalls(inv[i]))) =>
                /\ Len(DataCalls(inv'[i])) = Len(DataCalls(inv[i])) + 1
                /\ Len(DataResps(inv'[i])) = Len(DataCalls(inv[i]))]_vars

\* Reached: all three sub-queries issued and answered, one by one.
C22_Witness ==
    \E i \in Slots :
        /\ IsDiagnostics(inv[i]) /\ inv[i].pc = "done"
        /\ SubQueries(inv[i]) = SubQueryOrder
        /\ Len(DataResps(inv[i])) = 3

-----------------------------------------------------------------------------
(* C23 *)

\* An execute_query invocation, of either implementation, whose database_id
\* and query are valid.
ValidExecuteQuery(r) ==
    /\ r.kind \in {"tool", "handler"} /\ r.name = "execute_query"
    /\ r.args.database_id.t = "number" /\ r.args.database_id.n > 0
    /\ r.args.query.t = "string" /\ r.args.query.s # <<>>

\* The parameters the body is to carry: native_parameters, or the empty list.
ExpectedParameters(a) ==
    IF a.native_parameters.t = "undefined" THEN Arr(0) ELSE a.native_parameters

\* C23: a valid execute_query, in the switch of index.ts and in
\* handleExecuteQuery of tools.ts alike, has issued exactly one upstream call
\* once its credential is obtained: POST /api/dataset with type native, the
\* given query, the native parameters (the empty list when absent) and the
\* key database holding database_id.
C23_ExecuteQueryBody ==
    \A i \in Slots :
        (ValidExecuteQuery(inv[i]) /\ TokenResolved(inv[i])) =>
            /\ Len(DataCalls(inv[i])) = 1
            /\ LET c == DataCalls(inv[i])[1] IN
               /\ c.method = "POST" /\ c.ep = "/api/dataset"
               /\ c.payload.type = "native"
               /\ c.payload.query = inv[i].args.query
               /\ c.payload.parameters = ExpectedParameters(inv[i].args)
               /\ c.payload.dbKey = "database"
               /\ c.payload.database = inv[i].args.database_id

-----------------------------------------------------------------------------
(* C24 *)

SimpleTools == ToolNames \ {"get_postgres_performance_diagnostics"}

\* The arguments pass the checks of the handler: the required arguments of a
\* simple tool are numbers other than 0 and non-empty strings, the uri of a
\* read matches one of the three patterns.
PassesValidation(r) ==
    CASE r.kind = "tool" ->
           /\ r.name \in SimpleTools
           /\ \A f \in RequiredFields(r.name) :
                 \/ r.args[f].t = "number" /\ r.args[f].n # 0
                 \/ f = "query" /\ r.args[f].t = "string" /\ r.args[f].s # <<>>
      [] r.kind = "read" -> Truthy(r.uri) /\ ~MatchesNoPattern(r.uri)
      [] OTHER -> r.kind = "list"

\* An invocation of a simple tool or of a resource handler.
SimpleInvocation(r) ==
    \/ r.kind = "tool" /\ r.name \in SimpleTools
    \/ r.kind \in {"read", "list"}

\* C24: an invocation of a simple tool or of a resource handler has issued at
\* most one data call, and exactly one once its arguments pass validation and
\* its credential is obtained; every invocation has issued at most one login
\* call, never the same call twice, and no call before the previous one was
\* answered.
C24_NoRetry ==
    \A i \in Slots :
        /\ Len(LoginCalls(inv[i])) <= 1
        /\ \A k, l \in 1..Len(inv[i].calls) : k # l => inv[i].calls[k] # inv[i].calls[l]
        /\ Len(inv[i].calls) <= Len(inv[i].resps) + 1
        /\ SimpleInvocation(inv[i]) =>
              /\ Len(DataCalls(inv[i])) <= 1
              /\ (PassesValidation(inv[i]) /\ TokenResolved(inv[i])) =>
                    Len(DataCalls(inv[i])) = 1
              /\ inv[i].pc = "done" => Len(inv[i].calls) = Len(inv[i].resps)

\* Reached: a read logged in, its GET was answered 401, and it has ended with
\* one login call and one data call.
C24_Witness ==
    \E i \in Slots :
        /\ inv[i].kind = "read" /\ inv[i].pc = "done"
        /\ Len(LoginCalls(inv[i])) = 1
        /\ Len(DataCalls(inv[i])) = 1
        /\ DataResps(inv[i]) = <<Unauthorized>>

-----------------------------------------------------------------------------
(* C25 *)

\* The answer of the invocation comes from a raised error of the given code:
\* the error reached the transport, or the catch of the dispatch switch
\* converted it into an error-flagged text.
AnswersWithError(r, code) ==
    \/ r.outcome = "thrown" /\ r.error.code = code
    \/ /\ r.outcome = "returned" /\ r.isError
       /\ r.text.of = "error"

\* C25: a finished tools/call whose name is none of the eight tool names is
\* answered with an error of the code InvalidRequest, and has issued no data
\* call.  (Read in the claim's favour: credential acquisition returned
\* normally, and any text converted from a raised error counts.)
C25_UnknownToolIsInvalidRequest ==
    \A i \in Slots :
        (/\ inv[i].kind = "tool" /\ inv[i].pc = "done"
         /\ inv[i].name \notin ToolNames
         /\ TokenResolved(inv[i]))
        => /\ AnswersWithError(inv[i], InvalidRequest)
           /\ DataCalls(inv[i]) = <<>>

-----------------------------------------------------------------------------
(* C26 *)

InFlight(r) == r.pc \notin {"idle", "done"}

\* C26: an invocation that has begun and awaits an upstream call eventually
\* reaches its completion or failure, whether or not an interrupt arrives
\* while it is in flight.
C26_InFlightCompletes ==
    \A i \in Inv : (InFlight(inv[i]) ~> (inv[i].pc = "done"))

-----------------------------------------------------------------------------
(* C27 *)

\* C27: in session mode, the step in which getSessionToken returns normally
\* from a login (a 2xx response, whatever its body) leaves a non-empty token
\* cached; every data call carries X-Metabase-Session with a non-empty token;
\* and an invocation that has issued a data call has passed getSessionToken.
C27_SessionHeaderOnEveryDataCall ==
    /\ [][\A i \in Slots :
            (/\ ~ApiKeyMode
             /\ ProcessesLogin(i)
             /\ LoginSucceeds(LastResp(inv'[i])))
            => IsToken(sessionToken')]_vars
    /\ [](~ApiKeyMode =>
            \A i \in Slots :
                /\ DataCalls(inv[i]) # <<>> => TokenResolved(inv[i])
                /\ \A k \in 1..Len(DataCalls(inv[i])) :
                      /\ DataCalls(inv[i])[k].hdr.name = "X-Metabase-Session"
                      /\ IsToken(DataCalls(inv[i])[k].hdr.value))

-----------------------------------------------------------------------------
(* C28 *)

\* Invocation c arrives in this step.
Arrives(c) == inv[c].kind = "idle" /\ inv'[c].kind # "idle"

\* C28: in session mode, the step in which an invocation processes a failed
\* login (a non-2xx response or a thrown error) leaves the cached token as it
\* was, ends that invocation alone with the InternalError 'Failed to
\* authenticate with Metabase' and without a data call; an invocation that
\* arrives after a failed login while no token is cached issues a login call
\* of its own, and when that login is answered with a token the invocation
\* goes on to its data call with that token.
C28_FailedLoginNotRemembered ==
    /\ [][\A i \in Slots :
            (ProcessesLogin(i) /\ FailedResponse(LastResp(inv'[i]))) =>
                /\ sessionToken' = sessionToken
                /\ inv'[i].pc = "done" /\ inv'[i].outcome = "thrown"
                /\ inv'[i].error = McpError(InternalError, "Failed to authenticate with Metabase")
                /\ DataCalls(inv'[i]) = <<>>
                /\ \A j \in Slots \ {i} : inv'[j] = inv[j]]_vars
    /\ [][\A c \in Slots :
            (/\ Arrives(c)
             /\ ~ApiKeyMode
             /\ sessionToken = Null
             /\ \E a \in Slots : LoginFailed(inv[a]))
            => /\ inv'[c].pc = "login"
               /\ Len(LoginCalls(inv'[c])) = 1]_vars
    /\ [][\A c \in Slots :
            (/\ ProcessesLogin(c)
             /\ GoodLogin(LastResp(inv'[c]))
             /\ \E a \in Slots : LoginFailed(inv[a]))
            => /\ TokenResolved(inv'[c])
               /\ sessionToken' = LastResp(inv'[c]).body.id
               /\ Len(DataCalls(inv'[c])) = 1
               /\ DataCalls(inv'[c])[1].hdr =
                     [name |-> "X-Metabase-Session", value |-> LastResp(inv'[c]).body.id]]_vars

\* Reached: the login of the first invocation failed with nothing cached, and
\* the second invocation logged in afresh and has issued its data call.
C28_Witness ==
    \E a, c \in Slots :
        /\ a < c
        /\ LoginFailed(inv[a]) /\ inv[a].pc = "done"
        /\ inv[a].error = AuthenticationError
        /\ inv[c].inFlightLogins = {}
        /\ FirstUse(inv[c]) /\ inv[c].resps # <<>>
        /\ GoodLogin(inv[c].resps[1])
        /\ Len(DataCalls(inv[c])) = 1

-----------------------------------------------------------------------------
(* C29 *)

DataFields(report) ==
    [database_id |-> report.database_id,
     num_slow_queries |-> report.num_slow_queries,
     target_table_name |-> report.target_table_name,
     slow_queries |-> report.slow_queries,
     has_table_analysis |-> report.has_table_analysis,
     table_name |-> report.table_name,
     index_usage |-> report.index_usage,
     scan_stats |-> report.scan_stats]

ErrorFieldsPresent(report) ==
    [slow_queries_error |-> report.slow_queries_error # "",
     index_usage_error |-> report.index_usage_error # "",
     scan_stats_error |-> report.scan_stats_error # "",
     table_analysis_error |-> report.table_analysis_error # ""]

\* C29: called with the same arguments and given the same upstream outcomes,
\* the two implementations of _fetchPostgresDiagnostics are at every moment
\* at the same point, have issued the same upstream calls in the same order,
\* and hold reports with the same data fields and the same error fields
\* present; the wording of the error strings may differ.
C29_ImplementationsEquivalent ==
    /\ inv[1].pc = inv[2].pc
    /\ inv[1].calls = inv[2].calls
    /\ inv[1].resps = inv[2].resps
    /\ DataFields(inv[1].report) = DataFields(inv[2].report)
    /\ ErrorFieldsPresent(inv[1].report) = ErrorFieldsPresent(inv[2].report)

\* Reached: both implementations have returned after three sub-queries, the
\* index-usage one reported an error without rows, and the two reports word
\* that error differently.
C29_Witness ==
    /\ inv[1].pc = "done" /\ inv[2].pc = "done"
    /\ inv[2].kind = "client"
    /\ Len(inv[1].calls) = 3 /\ Len(inv[2].calls) = 3
    /\ inv[1].report.index_usage_error # ""
    /\ inv[2].report.index_usage_error # ""
    /\ inv[1].report.index_usage_error # inv[2].report.index_usage_error
    /\ inv[1].report.scan_stats # <<>>

-----------------------------------------------------------------------------
(* C30 *)

DigitValue(c) ==
    CASE c = "0" -> 0 [] c = "1" -> 1 [] c = "2" -> 2 [] c = "3" -> 3 [] c = "4" -> 4
      [] c = "5" -> 5 [] c = "6" -> 6 [] c = "7" -> 7 [] c = "8" -> 8 [] OTHER -> 9

\* The number a string of decimal digits denotes.
RECURSIVE DecimalValue(_)
DecimalValue(cs) ==
    IF cs = <<>> THEN 0
    ELSE DecimalValue(SubSeq(cs, 1, Len(cs) - 1)) * 10 + DigitValue(cs[Len(cs)])

DashboardPrefix ==
    <<"m", "e", "t", "a", "b", "a", "s", "e", ":", "/", "/",
      "d", "a", "s", "h", "b", "o", "a", "r", "d", "/">>

\* The text after metabase://dashboard/
AfterPrefix(uri) == SubSeq(uri, Len(DashboardPrefix) + 1, Len(uri))

\* metabase://dashboard/ followed by one or more decimal digits
IsDashboardUri(uri) ==
    /\ Len(uri) > Len(DashboardPrefix)
    /\ SubSeq(uri, 1, Len(DashboardPrefix)) = DashboardPrefix
    /\ \A n \in 1..Len(AfterPrefix(uri)) : AfterPrefix(uri)[n] \in Digits

\* A resources/list that has returned its descriptors.
ListReturned(r) == r.kind = "list" /\ r.pc = "done" /\ r.outcome = "returned"

\* The dashboards the list received from GET /api/dashboard.
ListedDashboards(r) == LastResp(r).body.elems

\* The k-th descriptor of list j stands for the k-th dashboard received, its
\* uri is a dashboard uri that names the dashboard's id, and every read of
\* that uri that has passed getSessionToken has issued exactly GET
\* /api/dashboard/{id} for that id and has not been refused.
RoundTrip(j, k) ==
    LET d == ListedDashboards(inv[j])[k]
        uri == inv[j].resources[k].uri IN
    /\ inv[j].resources[k].name = d.name
    /\ IsDashboardUri(uri)
    /\ d.id.t = "number" /\ DecimalValue(AfterPrefix(uri)) = d.id.n
    /\ \A i \in Slots :
          (inv[i].kind = "read" /\ inv[i].uri = Str(uri) /\ TokenResolved(inv[i])) =>
              /\ Len(DataCalls(inv[i])) = 1
              /\ DataCalls(inv[i])[1].method = "GET"
              /\ DataCalls(inv[i])[1].ep = "/api/dashboard/{id}"
              /\ DecimalValue(DataCalls(inv[i])[1].id) = d.id.n
              /\ inv[i].pc = "done" =>
                    \/ inv[i].outcome = "returned"
                    \/ FailedResponse(LastResp(inv[i]))

HasIntegerId(d) == d.id.t = "number" /\ d.id.n >= 0

====
